---- MODULE Spec2Model ----
(***************************************************************************)
(* The confirmation-rule engine of src/confirmation_rule.py (class         *)
(* ConfRule) as a state machine.  The engine's fields are the variables,   *)
(* update_confirmed_head is the one transition, and every private method   *)
(* is an operator computed as the Python computes it.                      *)
(*                                                                         *)
(* Weights.  The code counts weight in Gwei (VALIDATOR_BALANCE = 32*10^9). *)
(* TLC's integers are 32 bits wide, so the model counts weight in units of *)
(* 5*10^6 Gwei.  In that unit every quantity the code derives from         *)
(* VALIDATOR_BALANCE is the same integer multiple of the unit as in Gwei:  *)
(* the proposer score 0.4*committee_size*VALIDATOR_BALANCE, every          *)
(* ceil_div by SLOTS_PER_EPOCH, and the 1005/1000 adjustment of a multiple *)
(* of 10^9 Gwei; all comparisons of the code are homogeneous in the unit.  *)
(*                                                                         *)
(* Thresholds.  The byzantine and slashing thresholds are rationals        *)
(* n/ThresholdDen.  The engine's transition makes the two comparisons the  *)
(* code makes in floating point exactly, both sides multiplied by the      *)
(* denominators; on every snapshot offered to the engine this gives the    *)
(* value of the comparison in floats.  Where the two safety tests are      *)
(* evaluated on their own (EvaluationSpec) they are computed as Python     *)
(* computes them, in ints of any size and IEEE 754 doubles.                *)
(***************************************************************************)
EXTENDS Integers, Sequences, FiniteSets, TLC

\* ------------------------------------------------------------ constants

VALIDATOR_BALANCE == 32 * 200
PROPOSER_SCORE_BOOST == 40
SLOTS_PER_EPOCH == 32
SLOT_LEN == 12
COMMITTEE_WEIGHT_ESTIMATION_ADJUSTMENT_FACTOR == 5

\* Denominator of the two thresholds given to the constructor.
ThresholdDen == 20

\* Python's None (confirmed_head_root, ffg_confirmed_checkpoint before set).
None == "None"

\* ------------------------------------------------------------ bounds

\* Number of update_confirmed_head calls in one run.
MaxCalls == 3

\* Highest slot of a range whose committee weight is asked for.
MaxWeightSlot == 70

\* Number of queries the producer makes in one run of its loop.
MaxRuns == 2

\* Highest weight, in validators, of a block whose safety test is evaluated
\* on its own.
MaxValidators == 10

\* ------------------------------------------------------------ the block tree
\* The blocks the snapshots are taken of.  A block's slot and parent are
\* part of the block, so every snapshot that shows a block shows the same
\* slot and parent for it.  Epoch 1 starts at slot 32, epoch 2 at 64 and
\* epoch 3 at 96; slot 95 is the last slot of epoch 2.  Slot 96 is empty,
\* slot 94 is empty on the branch of Cf, and no block builds on Cf.
\*
\*      G(32) <- A(64) <- B(94) <- C(95) <- D(97)
\*                    \<---------- Cf(95)
Blocks == {"G", "A", "B", "C", "Cf", "D"}

BlockSlot ==
    [b \in Blocks |->
        CASE b = "G" -> 32 [] b = "A" -> 64 [] b = "B" -> 94
          [] b = "C" -> 95 [] b = "Cf" -> 95 [] b = "D" -> 97]

\* The parent of the tree's root lies outside every snapshot.
BlockParent ==
    [b \in Blocks |->
        CASE b = "G" -> "Gparent" [] b = "A" -> "G" [] b = "B" -> "A"
          [] b = "C" -> "B" [] b = "Cf" -> "A" [] b = "D" -> "C"]

\* The order in which a snapshot's nodes map lists the blocks.
NodeOrder == <<"G", "A", "B", "C", "Cf", "D">>

\* Slots at which snapshots are taken, and the seconds into the slot.
SnapshotSlots == {94, 95, 96, 97}
TimesInSlot == {0, 7}
CommitteeSizes == {1}

\* (finalized root, justified root) of a snapshot.
CheckpointPairs == { <<"G", "A">>, <<"A", "C">> }

\* (byzantine, slashing) thresholds as numerators over ThresholdDen:
\* 0.1 and 0.05.
ThresholdConfigs == { <<2, 1>> }

\* ------------------------------------------------------------ helpers

RECURSIVE SeqToSet(_)
SeqToSet(q) == IF q = <<>> THEN {} ELSE {Head(q)} \cup SeqToSet(Tail(q))

Min2(a, b) == IF a <= b THEN a ELSE b

\* range(lo, hi) of Python as a sequence: lo, lo+1, ..., hi-1.
PyRange(lo, hi) == [i \in 1..(IF hi > lo THEN hi - lo ELSE 0) |-> lo + i - 1]

\* The decimal digits of a natural number, most significant first: the
\* snapshot files hold slots as decimal strings.
RECURSIVE Decimal(_)
Decimal(n) == IF n < 10 THEN <<n>> ELSE Append(Decimal(n \div 10), n % 10)

\* Python's <= on two strings of digits (lexicographic).
RECURSIVE StrLeq(_, _)
StrLeq(x, y) ==
    IF x = <<>> THEN TRUE
    ELSE IF y = <<>> THEN FALSE
    ELSE IF Head(x) # Head(y) THEN Head(x) < Head(y)
    ELSE StrLeq(Tail(x), Tail(y))

\* ------------------------------------------------------------ Python numbers
\* The arithmetic of the code where it is not exact: a Python int has any
\* number of digits, a Python float is an IEEE 754 double, and an operation
\* on floats gives the double nearest to the exact result, ties to even.

\* A Python int that is not negative, as its digits in base LimbBase, least
\* significant first, no leading zero; 0 is the empty sequence.
LimbBase == 32768

RECURSIVE BigNorm(_)
BigNorm(a) ==
    IF a # <<>> /\ a[Len(a)] = 0 THEN BigNorm(SubSeq(a, 1, Len(a) - 1)) ELSE a

RECURSIVE BigFromNat(_)
BigFromNat(n) == IF n = 0 THEN <<>> ELSE <<n % LimbBase>> \o BigFromNat(n \div LimbBase)

RECURSIVE BigAddCarry(_, _, _)
BigAddCarry(a, b, carry) ==
    IF a = <<>> /\ b = <<>> THEN (IF carry = 0 THEN <<>> ELSE <<carry>>)
    ELSE LET x == IF a = <<>> THEN 0 ELSE Head(a)
             y == IF b = <<>> THEN 0 ELSE Head(b)
             s == x + y + carry
         IN  <<s % LimbBase>>
                \o BigAddCarry(IF a = <<>> THEN a ELSE Tail(a),
                               IF b = <<>> THEN b ELSE Tail(b), s \div LimbBase)

BigAdd(a, b) == BigAddCarry(a, b, 0)

\* a - b where a >= b.
RECURSIVE BigSubBorrow(_, _, _)
BigSubBorrow(a, b, borrow) ==
    IF a = <<>> THEN <<>>
    ELSE LET y == IF b = <<>> THEN 0 ELSE Head(b)
             d == Head(a) - y - borrow
         IN  <<IF d < 0 THEN d + LimbBase ELSE d>>
                \o BigSubBorrow(Tail(a), IF b = <<>> THEN b ELSE Tail(b),
                                IF d < 0 THEN 1 ELSE 0)

BigSub(a, b) == BigNorm(BigSubBorrow(a, b, 0))

\* -1, 0 or 1 as a is below, equal to or above b.
RECURSIVE BigCmpFrom(_, _, _)
BigCmpFrom(a, b, i) ==
    IF i = 0 THEN 0
    ELSE IF a[i] # b[i] THEN (IF a[i] < b[i] THEN -1 ELSE 1)
    ELSE BigCmpFrom(a, b, i - 1)

BigCmp(a, b) ==
    IF Len(a) # Len(b) THEN (IF Len(a) < Len(b) THEN -1 ELSE 1)
    ELSE BigCmpFrom(a, b, Len(a))

\* a * k for a digit k.
RECURSIVE BigMulSmallCarry(_, _, _)
BigMulSmallCarry(a, k, carry) ==
    IF a = <<>> THEN (IF carry = 0 THEN <<>> ELSE <<carry>>)
    ELSE LET p == Head(a) * k + carry
         IN  <<p % LimbBase>> \o BigMulSmallCarry(Tail(a), k, p \div LimbBase)

BigMulSmall(a, k) == IF k = 0 THEN <<>> ELSE BigMulSmallCarry(a, k, 0)

\* a * LimbBase
BigShiftLimb(a) == IF a = <<>> THEN <<>> ELSE <<0>> \o a

RECURSIVE BigMul(_, _)
BigMul(a, b) ==
    IF a = <<>> \/ b = <<>> THEN <<>>
    ELSE BigAdd(BigMulSmall(a, Head(b)), BigShiftLimb(BigMul(a, Tail(b))))

\* Quotient and remainder of a by a digit k > 0, from the digits 1..i of a
\* and the remainder of the digits above.
RECURSIVE BigDivSmallFrom(_, _, _, _)
BigDivSmallFrom(a, k, i, rem) ==
    IF i = 0 THEN [q |-> <<>>, r |-> rem]
    ELSE LET cur == rem * LimbBase + a[i]
             rest == BigDivSmallFrom(a, k, i - 1, cur % k)
         IN  [q |-> Append(rest.q, cur \div k), r |-> rest.r]

BigDivSmall(a, k) ==
    LET d == BigDivSmallFrom(a, k, Len(a), 0)
    IN  [q |-> BigNorm(d.q), r |-> d.r]

\* a * 2^n
RECURSIVE BigShl(_, _)
BigShl(a, n) ==
    IF n = 0 THEN a
    ELSE IF n >= 15 THEN BigShl(BigShiftLimb(a), n - 15)
    ELSE BigMulSmall(a, 2^n)

\* floor(a / 2^n)
RECURSIVE BigShr(_, _)
BigShr(a, n) ==
    IF n = 0 \/ a = <<>> THEN a
    ELSE IF n >= 15 THEN BigShr(Tail(a), n - 15)
    ELSE BigDivSmall(a, 2^n).q

RECURSIVE SmallBitLen(_)
SmallBitLen(k) == IF k = 0 THEN 0 ELSE 1 + SmallBitLen(k \div 2)

\* The number of binary digits of a.
BigBitLen(a) == IF a = <<>> THEN 0 ELSE 15 * (Len(a) - 1) + SmallBitLen(a[Len(a)])

BigOdd(a) == a # <<>> /\ a[1] % 2 = 1

\* A Python float: the number (-1)^neg * m * 2^e, m of at most 53 binary
\* digits (or 2^53).  FloatRound is the double nearest to n * 2^e, or, where
\* `sticky`, to a number above n * 2^e and below (n + 1) * 2^e, for an n of
\* more than 54 binary digits.
FloatRound(neg, n, e, sticky) ==
    IF BigBitLen(n) <= 53 THEN [neg |-> neg, m |-> n, e |-> e]
    ELSE LET s == BigBitLen(n) - 53
             q == BigShr(n, s)
             r == BigSub(n, BigShl(q, s))
             c == BigCmp(r, BigShl(<<1>>, s - 1))
             up == c = 1 \/ (c = 0 /\ (sticky \/ BigOdd(q)))
         IN  [neg |-> neg, m |-> IF up THEN BigAdd(q, <<1>>) ELSE q, e |-> e + s]

\* float(n) for an int n >= 0.
FloatOfInt(n) == FloatRound(FALSE, n, 0, FALSE)

\* a / b for ints a >= 0, b > 0 below LimbBase; also float("a/b" written as
\* a decimal): the double nearest to the quotient.
FloatDivNat(a, b) ==
    LET d == BigDivSmall(BigShl(BigFromNat(a), 64), b)
    IN  FloatRound(FALSE, d.q, -64, d.r # 0)

FloatMul(x, y) == FloatRound(x.neg # y.neg, BigMul(x.m, y.m), x.e + y.e, FALSE)

FloatNeg(x) == [x EXCEPT !.neg = ~x.neg]

FloatAdd(x, y) ==
    LET e == IF x.e <= y.e THEN x.e ELSE y.e
        a == BigShl(x.m, x.e - e)
        b == BigShl(y.m, y.e - e)
    IN  IF x.neg = y.neg THEN FloatRound(x.neg, BigAdd(a, b), e, FALSE)
        ELSE IF BigCmp(a, b) >= 0 THEN FloatRound(x.neg, BigSub(a, b), e, FALSE)
        ELSE FloatRound(y.neg, BigSub(b, a), e, FALSE)

FloatSub(x, y) == FloatAdd(x, FloatNeg(y))

\* -1, 0 or 1 as x is below, equal to or above y.
FloatCmp(x, y) ==
    LET d == FloatSub(x, y)
    IN  IF d.m = <<>> THEN 0 ELSE IF d.neg THEN -1 ELSE 1

\* min(x, y, z) of Python: the first of the least.
FloatMin3(x, y, z) ==
    LET xy == IF FloatCmp(y, x) < 0 THEN y ELSE x
    IN  IF FloatCmp(z, xy) < 0 THEN z ELSE xy

\* The weight unit of the model in Gwei, and a weight of the model as the
\* Python int the code holds.
GweiPerUnit == 5000000

Gwei(weight) == BigMul(BigFromNat(weight), BigFromNat(GweiPerUnit))

\* spec.compute_epoch_at_slot of eth2spec.
compute_epoch_at_slot(slot) == slot \div SLOTS_PER_EPOCH


\* ------------------------------------------------------------ snapshots
\* conf_info as the producer writes it (collect_data.get_confirmation_context
\* plus current_time_in_slot): the blocks proposed up to current_slot, in
\* the order of NodeOrder.  The tree's root carries the weight of all
\* validators; of the other blocks, those in `heavy` carry it too and the
\* rest carry none.
Visible(slot) == {b \in Blocks : BlockSlot[b] <= slot}

HeavyWeight(committee_size) == SLOTS_PER_EPOCH * committee_size * VALIDATOR_BALANCE

MkConfInfo(slot, time, heavy, pair, committee_size) ==
    [current_slot |-> slot,
     current_time_in_slot |-> time,
     order |-> SelectSeq(NodeOrder, LAMBDA b : b \in Visible(slot)),
     nodes |-> [b \in Visible(slot) |->
                  [block_root |-> b,
                   slot |-> BlockSlot[b],
                   parent_root |-> BlockParent[b],
                   weight |-> IF b \in heavy \/ BlockParent[b] \notin Blocks
                              THEN HeavyWeight(committee_size) ELSE 0]],
     justified_checkpoint |-> [root |-> pair[2]],
     finalized_checkpoint |-> [root |-> pair[1]],
     committee_size |-> committee_size]

\* ------------------------------------------------------------ head selection

\* sorted(nodes.items(), key=slot)[-1][0]: the sort is stable and compares
\* the slots as the snapshot holds them (decimal strings), so the result is
\* the last block, in the order of the map, among those whose slot no
\* other block's slot exceeds.
RECURSIVE last_with_greatest_key(_, _, _)
last_with_greatest_key(conf_info, order, best) ==
    IF order = <<>> THEN best
    ELSE LET b == Head(order)
             take == best = None
                     \/ StrLeq(Decimal(conf_info.nodes[best].slot),
                               Decimal(conf_info.nodes[b].slot))
         IN  last_with_greatest_key(conf_info, Tail(order), IF take THEN b ELSE best)

find_head_root(conf_info) == last_with_greatest_key(conf_info, conf_info.order, None)

\* ------------------------------------------------------------ weight estimator

ceil_div(numerator, denominator) ==
    IF numerator % denominator = 0
    THEN numerator \div denominator
    ELSE (numerator \div denominator) + 1

is_full_validator_set_covered(start_slot, end_slot) ==
    LET start_epoch == compute_epoch_at_slot(start_slot)
        end_epoch == compute_epoch_at_slot(end_slot)
        at_boundary == \/ start_slot % SLOTS_PER_EPOCH = 0
                       \/ (end_slot + 1) % SLOTS_PER_EPOCH = 0
    IN  \/ end_epoch > start_epoch + 1
        \/ (at_boundary /\ start_slot + SLOTS_PER_EPOCH - 1 <= end_slot)

adjust_committee_weight_estimate_to_ensure_safety(estimate) ==
    ceil_div(estimate * (1000 + COMMITTEE_WEIGHT_ESTIMATION_ADJUSTMENT_FACTOR), 1000)

get_total_active_balance(conf_info) ==
    SLOTS_PER_EPOCH * conf_info.committee_size * VALIDATOR_BALANCE

\* Mutant: the current slot is counted among the remaining slots.
get_remaining_weight_in_epoch_counting_current_slot(self, conf_info) ==
    (SLOTS_PER_EPOCH - (self.current_slot % SLOTS_PER_EPOCH))
        * conf_info.committee_size * VALIDATOR_BALANCE

get_remaining_weight_in_epoch(self, conf_info) ==
    LET remaining_slots_in_epoch ==
            SLOTS_PER_EPOCH - (self.current_slot % SLOTS_PER_EPOCH) - 1
    IN  remaining_slots_in_epoch * conf_info.committee_size * VALIDATOR_BALANCE

\* Mutant: a range within one epoch is estimated, and the estimate
\* adjusted, before the test for a whole epoch.
get_committee_weight_between_slots_adjusting_within_epoch(conf_info, start_slot, end_slot) ==
    LET total_active_balance == get_total_active_balance(conf_info)
    IN  IF start_slot > end_slot THEN 0
        ELSE IF compute_epoch_at_slot(start_slot) = compute_epoch_at_slot(end_slot)
        THEN adjust_committee_weight_estimate_to_ensure_safety(
                ceil_div((end_slot - start_slot + 1) * total_active_balance,
                         SLOTS_PER_EPOCH))
        ELSE total_active_balance

\* Mutant: the estimate for a range across an epoch boundary is returned
\* as it is.
get_committee_weight_between_slots_without_adjustment(conf_info, start_slot, end_slot) ==
    LET total_active_balance == get_total_active_balance(conf_info)
        num_slots_in_end_epoch == (end_slot % SLOTS_PER_EPOCH) + 1
        remaining_slots_in_end_epoch == SLOTS_PER_EPOCH - num_slots_in_end_epoch
        num_slots_in_start_epoch == SLOTS_PER_EPOCH - (start_slot % SLOTS_PER_EPOCH)
    IN  IF start_slot > end_slot THEN 0
        ELSE IF is_full_validator_set_covered(start_slot, end_slot)
        THEN total_active_balance
        ELSE IF compute_epoch_at_slot(start_slot) = compute_epoch_at_slot(end_slot)
        THEN ceil_div((end_slot - start_slot + 1) * total_active_balance, SLOTS_PER_EPOCH)
        ELSE ceil_div(ceil_div(num_slots_in_start_epoch * remaining_slots_in_end_epoch
                                  * total_active_balance,
                               SLOTS_PER_EPOCH)
                        + num_slots_in_end_epoch * total_active_balance,
                      SLOTS_PER_EPOCH)

get_committee_weight_between_slots(conf_info, start_slot, end_slot) ==
    LET total_active_balance == get_total_active_balance(conf_info)
        start_epoch == compute_epoch_at_slot(start_slot)
        end_epoch == compute_epoch_at_slot(end_slot)
        num_slots_in_end_epoch == (end_slot % SLOTS_PER_EPOCH) + 1
        remaining_slots_in_end_epoch == SLOTS_PER_EPOCH - num_slots_in_end_epoch
        num_slots_in_start_epoch == SLOTS_PER_EPOCH - (start_slot % SLOTS_PER_EPOCH)
        end_epoch_weight_mul_by_slots_per_epoch ==
            num_slots_in_end_epoch * total_active_balance
        start_epoch_weight_mul_by_slots_per_epoch ==
            ceil_div(num_slots_in_start_epoch * remaining_slots_in_end_epoch
                        * total_active_balance,
                     SLOTS_PER_EPOCH)
    IN  IF start_slot > end_slot THEN 0
        ELSE IF is_full_validator_set_covered(start_slot, end_slot)
        THEN total_active_balance
        ELSE IF start_epoch = end_epoch
        THEN ceil_div((end_slot - start_slot + 1) * total_active_balance, SLOTS_PER_EPOCH)
        ELSE adjust_committee_weight_estimate_to_ensure_safety(
                ceil_div(start_epoch_weight_mul_by_slots_per_epoch
                            + end_epoch_weight_mul_by_slots_per_epoch,
                         SLOTS_PER_EPOCH))

\* (PROPOSER_SCORE_BOOST / 100) * ceil_div(total_active_balance, SLOTS_PER_EPOCH):
\* 40% of one committee's weight, an integer for every committee size.
proposer_score(conf_info) ==
    (PROPOSER_SCORE_BOOST
        * ceil_div(get_total_active_balance(conf_info), SLOTS_PER_EPOCH)) \div 100

\* ------------------------------------------------------------ LMD safety

\* 100*(support - proposer_score) >
\*     50*maximum_support + 50*proposer_score + byzantine*100*maximum_support
\* with byzantine = confirmation_byzantine_threshold / ThresholdDen.
is_one_lmd_confirmed(self, conf_info, block_root) ==
    LET nodes == conf_info.nodes
        support == nodes[block_root].weight
        parent_root == nodes[block_root].parent_root
        parent_slot == nodes[parent_root].slot
        maximum_support ==
            get_committee_weight_between_slots(conf_info, parent_slot + 1, self.current_slot)
        support_without_proposer_boost == support - proposer_score(conf_info)
    IN  ThresholdDen * 100 * support_without_proposer_boost >
            ThresholdDen * 50 * maximum_support
          + ThresholdDen * 50 * proposer_score(conf_info)
          + self.confirmation_byzantine_threshold * 100 * maximum_support

\* Mutant: the parent is not asked about.
is_lmd_confirmed_block_only(self, conf_info, block_root) ==
    IF \/ conf_info.finalized_checkpoint.root = block_root
       \/ self.confirmed_head_root = block_root
    THEN TRUE
    ELSE is_one_lmd_confirmed(self, conf_info, block_root)

RECURSIVE is_lmd_confirmed(_, _, _)
is_lmd_confirmed(self, conf_info, block_root) ==
    IF \/ conf_info.finalized_checkpoint.root = block_root
       \/ self.confirmed_head_root = block_root
    THEN TRUE
    ELSE /\ is_one_lmd_confirmed(self, conf_info, block_root)
         /\ is_lmd_confirmed(self, conf_info, conf_info.nodes[block_root].parent_root)

\* ------------------------------------------------------------ checkpoints

RECURSIVE get_ancestor(_, _, _)
get_ancestor(block_root, slot, conf_info) ==
    IF conf_info.nodes[block_root].slot > slot
    THEN get_ancestor(conf_info.nodes[block_root].parent_root, slot, conf_info)
    ELSE conf_info.nodes[block_root].block_root

get_checkpoint_block(block_root, conf_info, block_epoch) ==
    get_ancestor(block_root, block_epoch * SLOTS_PER_EPOCH, conf_info)

\* (checkpoint_root, ffg_support)
get_checkpoint_ffg_support(block_root, conf_info, block_epoch) ==
    LET checkpoint_root == get_checkpoint_block(block_root, conf_info, block_epoch)
    IN  <<checkpoint_root,
          conf_info.nodes[checkpoint_root].weight - proposer_score(conf_info)>>


\* ------------------------------------------------------------ FFG safety

\* The assertion of is_ffg_confirmed: the block is of the current epoch.
ffg_assertion(self, conf_info, block_root) ==
    compute_epoch_at_slot(conf_info.nodes[block_root].slot)
        = compute_epoch_at_slot(self.current_slot)

\* min(byzantine * (total - remaining), slashing * total, checkpoint_ffg_support),
\* multiplied by ThresholdDen.
max_adversarial_ffg_support(self, conf_info, checkpoint_ffg_support) ==
    LET total_validators_weight == get_total_active_balance(conf_info)
        remaining_weight_in_epoch == get_remaining_weight_in_epoch(self, conf_info)
    IN  Min2(self.confirmation_byzantine_threshold
                * (total_validators_weight - remaining_weight_in_epoch),
             Min2(self.confirmation_slashing_threshold * total_validators_weight,
                  ThresholdDen * checkpoint_ffg_support))

\* (2/3) * total <= support - max_adversarial + (1 - byzantine) * remaining,
\* both sides multiplied by 3 * ThresholdDen.
ffg_condition(self, conf_info, checkpoint_ffg_support) ==
    LET total_validators_weight == get_total_active_balance(conf_info)
        remaining_weight_in_epoch == get_remaining_weight_in_epoch(self, conf_info)
    IN  2 * ThresholdDen * total_validators_weight
            <= 3 * ThresholdDen * checkpoint_ffg_support
               - 3 * max_adversarial_ffg_support(self, conf_info, checkpoint_ffg_support)
               + 3 * (ThresholdDen - self.confirmation_byzantine_threshold)
                   * remaining_weight_in_epoch

\* Mutant: the checkpoint is tracked at every slot, not at the last slot
\* of an epoch only.
is_ffg_confirmed_tracking_every_slot(self, conf_info, block_root) ==
    LET block_epoch == compute_epoch_at_slot(conf_info.nodes[block_root].slot)
        cp == get_checkpoint_ffg_support(block_root, conf_info, block_epoch)
        is_confirmed_ == ffg_condition(self, conf_info, cp[2])
    IN  IF ~ffg_assertion(self, conf_info, block_root)
        THEN [value |-> FALSE,
              ffg_confirmed_checkpoint |-> self.ffg_confirmed_checkpoint,
              raised |-> TRUE]
        ELSE [value |-> is_confirmed_,
              ffg_confirmed_checkpoint |->
                  IF is_confirmed_ THEN cp[1] ELSE self.ffg_confirmed_checkpoint,
              raised |-> FALSE]

\* Mutant: the block itself is tracked in place of its checkpoint.
is_ffg_confirmed_tracking_the_block(self, conf_info, block_root) ==
    LET block_epoch == compute_epoch_at_slot(conf_info.nodes[block_root].slot)
        cp == get_checkpoint_ffg_support(block_root, conf_info, block_epoch)
        is_confirmed_ == ffg_condition(self, conf_info, cp[2])
    IN  IF ~ffg_assertion(self, conf_info, block_root)
        THEN [value |-> FALSE,
              ffg_confirmed_checkpoint |-> self.ffg_confirmed_checkpoint,
              raised |-> TRUE]
        ELSE [value |-> is_confirmed_,
              ffg_confirmed_checkpoint |->
                  IF is_confirmed_ /\ (self.current_slot + 1) % SLOTS_PER_EPOCH = 0
                  THEN block_root
                  ELSE self.ffg_confirmed_checkpoint,
              raised |-> FALSE]

\* The value returned, the engine's ffg_confirmed_checkpoint after the call,
\* and whether the assertion failed.
is_ffg_confirmed(self, conf_info, block_root) ==
    LET block_epoch == compute_epoch_at_slot(conf_info.nodes[block_root].slot)
        cp == get_checkpoint_ffg_support(block_root, conf_info, block_epoch)
        checkpoint_root == cp[1]
        is_confirmed_ == ffg_condition(self, conf_info, cp[2])
    IN  IF ~ffg_assertion(self, conf_info, block_root)
        THEN [value |-> FALSE,
              ffg_confirmed_checkpoint |-> self.ffg_confirmed_checkpoint,
              raised |-> TRUE]
        ELSE [value |-> is_confirmed_,
              ffg_confirmed_checkpoint |->
                  IF is_confirmed_ /\ (self.current_slot + 1) % SLOTS_PER_EPOCH = 0
                  THEN checkpoint_root
                  ELSE self.ffg_confirmed_checkpoint,
              raised |-> FALSE]

\* ------------------------------------------------------------ the safety tests in floats
\* __is_one_lmd_confirmed and __is_ffg_confirmed with the numbers the code
\* holds: weights are Python ints in Gwei, the thresholds, the proposer
\* score and both sides of the two comparisons are floats.

\* float(args.byzantinethreshold), float(args.slashingthreshold)
threshold_as_float(numerator) == FloatDivNat(numerator, ThresholdDen)

\* (PROPOSER_SCORE_BOOST / 100) * ceil_div(total_active_balance, SLOTS_PER_EPOCH)
proposer_score_in_floats(conf_info) ==
    FloatMul(FloatDivNat(PROPOSER_SCORE_BOOST, 100),
             FloatOfInt(Gwei(ceil_div(get_total_active_balance(conf_info),
                                      SLOTS_PER_EPOCH))))

\* Mutant: the comparison is not strict.
is_one_lmd_confirmed_in_floats_not_strict(self, conf_info, block_root) ==
    LET nodes == conf_info.nodes
        parent_slot == nodes[nodes[block_root].parent_root].slot
        maximum_support ==
            get_committee_weight_between_slots(conf_info, parent_slot + 1, self.current_slot)
        score == proposer_score_in_floats(conf_info)
        left == FloatMul(FloatOfInt(BigFromNat(100)),
                         FloatSub(FloatOfInt(Gwei(nodes[block_root].weight)), score))
        right == FloatAdd(
                    FloatAdd(FloatOfInt(Gwei(50 * maximum_support)),
                             FloatMul(FloatOfInt(BigFromNat(50)), score)),
                    FloatMul(FloatMul(threshold_as_float(self.confirmation_byzantine_threshold),
                                      FloatOfInt(BigFromNat(100))),
                             FloatOfInt(Gwei(maximum_support))))
    IN  FloatCmp(left, right) >= 0

\* 100 * support_without_proposer_boost >
\*     50 * maximum_support + 50 * proposer_score
\*         + self.confirmation_byzantine_threshold * 100 * maximum_support
is_one_lmd_confirmed_in_floats(self, conf_info, block_root) ==
    LET nodes == conf_info.nodes
        support == nodes[block_root].weight
        parent_root == nodes[block_root].parent_root
        parent_slot == nodes[parent_root].slot
        maximum_support ==
            get_committee_weight_between_slots(conf_info, parent_slot + 1, self.current_slot)
        score == proposer_score_in_floats(conf_info)
        support_without_proposer_boost == FloatSub(FloatOfInt(Gwei(support)), score)
        left == FloatMul(FloatOfInt(BigFromNat(100)), support_without_proposer_boost)
        right == FloatAdd(
                    FloatAdd(FloatOfInt(Gwei(50 * maximum_support)),
                             FloatMul(FloatOfInt(BigFromNat(50)), score)),
                    FloatMul(FloatMul(threshold_as_float(self.confirmation_byzantine_threshold),
                                      FloatOfInt(BigFromNat(100))),
                             FloatOfInt(Gwei(maximum_support))))
    IN  FloatCmp(left, right) > 0

\* (checkpoint_root, ffg_support), the support a float.
get_checkpoint_ffg_support_in_floats(block_root, conf_info, block_epoch) ==
    LET checkpoint_root == get_checkpoint_block(block_root, conf_info, block_epoch)
    IN  <<checkpoint_root,
          FloatSub(FloatOfInt(Gwei(conf_info.nodes[checkpoint_root].weight)),
                   proposer_score_in_floats(conf_info))>>

\* The value returned, the engine's ffg_confirmed_checkpoint after the call,
\* and whether the assertion failed.
is_ffg_confirmed_in_floats(self, conf_info, block_root) ==
    LET block_epoch == compute_epoch_at_slot(conf_info.nodes[block_root].slot)
        cp == get_checkpoint_ffg_support_in_floats(block_root, conf_info, block_epoch)
        checkpoint_root == cp[1]
        checkpoint_ffg_support == cp[2]
        total_validators_weight == get_total_active_balance(conf_info)
        remaining_weight_in_epoch == get_remaining_weight_in_epoch(self, conf_info)
        byzantine == threshold_as_float(self.confirmation_byzantine_threshold)
        slashing == threshold_as_float(self.confirmation_slashing_threshold)
        max_adversarial_ffg_support_ ==
            FloatMin3(
                FloatMul(byzantine,
                         FloatOfInt(Gwei(total_validators_weight - remaining_weight_in_epoch))),
                FloatMul(slashing, FloatOfInt(Gwei(total_validators_weight))),
                checkpoint_ffg_support)
        left == FloatMul(FloatDivNat(2, 3), FloatOfInt(Gwei(total_validators_weight)))
        right == FloatAdd(
                    FloatSub(checkpoint_ffg_support, max_adversarial_ffg_support_),
                    FloatMul(FloatSub(FloatOfInt(BigFromNat(1)), byzantine),
                             FloatOfInt(Gwei(remaining_weight_in_epoch))))
        is_confirmed_ == FloatCmp(left, right) <= 0
    IN  IF ~ffg_assertion(self, conf_info, block_root)
        THEN [value |-> FALSE,
              ffg_confirmed_checkpoint |-> self.ffg_confirmed_checkpoint,
              raised |-> TRUE]
        ELSE [value |-> is_confirmed_,
              ffg_confirmed_checkpoint |->
                  IF is_confirmed_ /\ (self.current_slot + 1) % SLOTS_PER_EPOCH = 0
                  THEN checkpoint_root
                  ELSE self.ffg_confirmed_checkpoint,
              raised |-> FALSE]

\* ------------------------------------------------------------ LMD and FFG combined

\* Mutant: the fast path knows the confirmed head only.
is_finalized_or_confirmed_head_only_head(self, conf_info, block_root) ==
    self.confirmed_head_root = block_root

\* The fast path of is_confirmed.
is_finalized_or_confirmed_head(self, conf_info, block_root) ==
    \/ conf_info.finalized_checkpoint.root = block_root
    \/ self.confirmed_head_root = block_root

\* Mutant: the checkpoint of the previous epoch has to be the justified
\* one; the finalized one does not do.
is_confirmed_current_epoch_justified_only(self, conf_info, block_root) ==
    LET current_epoch == compute_epoch_at_slot(self.current_slot)
        second_highest_checkpoint_root ==
            get_checkpoint_block(block_root, conf_info, current_epoch - 1)
    IN  IF /\ second_highest_checkpoint_root = conf_info.justified_checkpoint.root
           /\ is_lmd_confirmed(self, conf_info, block_root)
        THEN is_ffg_confirmed(self, conf_info, block_root)
        ELSE [value |-> FALSE,
              ffg_confirmed_checkpoint |-> self.ffg_confirmed_checkpoint,
              raised |-> FALSE]

\* A block of the current epoch.
is_confirmed_current_epoch(self, conf_info, block_root) ==
    LET current_epoch == compute_epoch_at_slot(self.current_slot)
        second_highest_checkpoint_root ==
            get_checkpoint_block(block_root, conf_info, current_epoch - 1)
        is_lmd_confirmed_ == is_lmd_confirmed(self, conf_info, block_root)
        unchanged == [value |-> FALSE,
                      ffg_confirmed_checkpoint |-> self.ffg_confirmed_checkpoint,
                      raised |-> FALSE]
    IN  IF /\ \/ second_highest_checkpoint_root = conf_info.justified_checkpoint.root
              \/ second_highest_checkpoint_root = conf_info.finalized_checkpoint.root
           /\ is_lmd_confirmed_
        THEN is_ffg_confirmed(self, conf_info, block_root)
        ELSE unchanged

\* Mutant: the tracked ffg_confirmed_checkpoint is not consulted.
is_confirmed_previous_epoch_untracked(self, conf_info, block_root) ==
    LET current_epoch == compute_epoch_at_slot(self.current_slot)
        second_highest_checkpoint_root ==
            get_checkpoint_block(block_root, conf_info, current_epoch - 1)
        third_highest_checkpoint_root ==
            get_checkpoint_block(block_root, conf_info, current_epoch - 2)
    IN  IF second_highest_checkpoint_root = conf_info.finalized_checkpoint.root
        THEN is_lmd_confirmed(self, conf_info, block_root)
        ELSE /\ second_highest_checkpoint_root = conf_info.justified_checkpoint.root
             /\ is_lmd_confirmed(self, conf_info, block_root)
             /\ third_highest_checkpoint_root = conf_info.finalized_checkpoint.root

\* Mutant: with the checkpoint of the previous epoch finalized, the block is
\* taken as confirmed without the LMD check.
is_confirmed_previous_epoch_without_lmd(self, conf_info, block_root) ==
    LET current_epoch == compute_epoch_at_slot(self.current_slot)
        second_highest_checkpoint_root ==
            get_checkpoint_block(block_root, conf_info, current_epoch - 1)
        third_highest_checkpoint_root ==
            get_checkpoint_block(block_root, conf_info, current_epoch - 2)
    IN  IF second_highest_checkpoint_root = conf_info.finalized_checkpoint.root
        THEN TRUE
        ELSE /\ second_highest_checkpoint_root = self.ffg_confirmed_checkpoint
             /\ second_highest_checkpoint_root = conf_info.justified_checkpoint.root
             /\ is_lmd_confirmed(self, conf_info, block_root)
             /\ third_highest_checkpoint_root = conf_info.finalized_checkpoint.root

\* A block of the previous epoch.
is_confirmed_previous_epoch(self, conf_info, block_root) ==
    LET current_epoch == compute_epoch_at_slot(self.current_slot)
        second_highest_checkpoint_root ==
            get_checkpoint_block(block_root, conf_info, current_epoch - 1)
        third_highest_checkpoint_root ==
            get_checkpoint_block(block_root, conf_info, current_epoch - 2)
        is_lmd_confirmed_ == is_lmd_confirmed(self, conf_info, block_root)
    IN  IF second_highest_checkpoint_root = conf_info.finalized_checkpoint.root
        THEN is_lmd_confirmed_
        ELSE /\ second_highest_checkpoint_root = self.ffg_confirmed_checkpoint
             /\ second_highest_checkpoint_root = conf_info.justified_checkpoint.root
             /\ is_lmd_confirmed_
             /\ third_highest_checkpoint_root = conf_info.finalized_checkpoint.root

\* Mutant: a block that is neither finalized nor the confirmed head is put
\* to the rule of the current epoch whatever its epoch.
is_confirmed_without_epoch_dispatch(self, conf_info, block_root) ==
    IF is_finalized_or_confirmed_head(self, conf_info, block_root)
    THEN [value |-> TRUE,
          ffg_confirmed_checkpoint |-> self.ffg_confirmed_checkpoint,
          raised |-> FALSE]
    ELSE is_confirmed_current_epoch(self, conf_info, block_root)

\* The value returned, the engine's ffg_confirmed_checkpoint after the call,
\* and whether an assertion failed on the way.
is_confirmed(self, conf_info, block_root) ==
    LET current_epoch == compute_epoch_at_slot(self.current_slot)
        block_epoch == compute_epoch_at_slot(conf_info.nodes[block_root].slot)
        pure(v) == [value |-> v,
                    ffg_confirmed_checkpoint |-> self.ffg_confirmed_checkpoint,
                    raised |-> FALSE]
    IN  IF is_finalized_or_confirmed_head(self, conf_info, block_root)
        THEN pure(TRUE)
        ELSE IF block_epoch = current_epoch
        THEN is_confirmed_current_epoch(self, conf_info, block_root)
        ELSE IF block_epoch = current_epoch - 1
        THEN pure(is_confirmed_previous_epoch(self, conf_info, block_root))
        ELSE pure(FALSE)

\* Mutant: the walk takes the parent of an unconfirmed block without
\* checking it.
find_confirmed_block_head_one_step(self, conf_info, block_root) ==
    LET c == is_confirmed(self, conf_info, block_root)
    IN  [root |-> IF c.raised \/ c.value
                  THEN block_root ELSE conf_info.nodes[block_root].parent_root,
         ffg_confirmed_checkpoint |-> c.ffg_confirmed_checkpoint,
         raised |-> c.raised]

\* The root returned, the engine's ffg_confirmed_checkpoint after the walk,
\* and whether an assertion failed on the way.
RECURSIVE find_confirmed_block_head(_, _, _)
find_confirmed_block_head(self, conf_info, block_root) ==
    LET c == is_confirmed(self, conf_info, block_root)
    IN  IF c.raised \/ c.value
        THEN [root |-> block_root,
              ffg_confirmed_checkpoint |-> c.ffg_confirmed_checkpoint,
              raised |-> c.raised]
        ELSE find_confirmed_block_head(
                [self EXCEPT !.ffg_confirmed_checkpoint = c.ffg_confirmed_checkpoint],
                conf_info, conf_info.nodes[block_root].parent_root)

\* ------------------------------------------------------------ latency and anomalies

\* Mutant: pre_slot is not updated in the loop.
RECURSIVE conf_times_loop_stale_pre_slot(_, _, _, _)
conf_times_loop_stale_pre_slot(self, conf_info, cur_root, acc) ==
    IF cur_root = self.confirmed_head_root THEN acc
    ELSE LET cur_slot == conf_info.nodes[cur_root].slot
             time == (self.current_slot - cur_slot) * SLOT_LEN + self.time_in_current_slot
         IN  IF cur_slot <= self.confirmed_head_slot
             THEN [acc EXCEPT !.error = TRUE]
             ELSE conf_times_loop_stale_pre_slot(
                    self, conf_info, conf_info.nodes[cur_root].parent_root,
                    [conf_times |-> Append(acc.conf_times, time),
                     empty_or_forked_slots |->
                        acc.empty_or_forked_slots
                            \o (IF acc.pre_slot - cur_slot > 1
                                THEN PyRange(cur_slot + 1, acc.pre_slot) ELSE <<>>),
                     error |-> FALSE,
                     pre_slot |-> acc.pre_slot])

\* Mutant: the old confirmed head is given a confirmation time too before
\* the loop ends.
RECURSIVE conf_times_loop_timing_old_head(_, _, _, _)
conf_times_loop_timing_old_head(self, conf_info, cur_root, acc) ==
    LET cur_slot == conf_info.nodes[cur_root].slot
        time == (self.current_slot - cur_slot) * SLOT_LEN + self.time_in_current_slot
    IN  IF cur_root = self.confirmed_head_root
        THEN [acc EXCEPT !.conf_times = Append(@, time)]
        ELSE IF cur_slot <= self.confirmed_head_slot
        THEN [acc EXCEPT !.error = TRUE]
        ELSE conf_times_loop_timing_old_head(
                self, conf_info, conf_info.nodes[cur_root].parent_root,
                [conf_times |-> Append(acc.conf_times, time),
                 empty_or_forked_slots |->
                    acc.empty_or_forked_slots
                        \o (IF acc.pre_slot - cur_slot > 1
                            THEN PyRange(cur_slot + 1, acc.pre_slot) ELSE <<>>),
                 error |-> FALSE,
                 pre_slot |-> cur_slot])

\* Mutant: the slots between two blocks visited are not recorded.
RECURSIVE conf_times_loop_without_gaps(_, _, _, _)
conf_times_loop_without_gaps(self, conf_info, cur_root, acc) ==
    IF cur_root = self.confirmed_head_root THEN acc
    ELSE LET cur_slot == conf_info.nodes[cur_root].slot
             time == (self.current_slot - cur_slot) * SLOT_LEN + self.time_in_current_slot
         IN  IF cur_slot <= self.confirmed_head_slot
             THEN [acc EXCEPT !.error = TRUE]
             ELSE conf_times_loop_without_gaps(
                    self, conf_info, conf_info.nodes[cur_root].parent_root,
                    [conf_times |-> Append(acc.conf_times, time),
                     empty_or_forked_slots |-> acc.empty_or_forked_slots,
                     error |-> FALSE,
                     pre_slot |-> cur_slot])

\* The loop of compute_conf_times from cur_root on: the confirmation times
\* and the empty or forked slots appended so far, the reorg error logged,
\* and pre_slot when the loop ends.
RECURSIVE conf_times_loop(_, _, _, _)
conf_times_loop(self, conf_info, cur_root, acc) ==
    IF cur_root = self.confirmed_head_root THEN acc
    ELSE LET cur_slot == conf_info.nodes[cur_root].slot
             time == (self.current_slot - cur_slot) * SLOT_LEN + self.time_in_current_slot
         IN  IF cur_slot <= self.confirmed_head_slot
             THEN [acc EXCEPT !.error = TRUE]
             ELSE conf_times_loop(self, conf_info, conf_info.nodes[cur_root].parent_root,
                    [conf_times |-> Append(acc.conf_times, time),
                     empty_or_forked_slots |->
                        acc.empty_or_forked_slots
                            \o (IF acc.pre_slot - cur_slot > 1
                                THEN PyRange(cur_slot + 1, acc.pre_slot) ELSE <<>>),
                     error |-> FALSE,
                     pre_slot |-> cur_slot])

\* Mutant: the slots between the old confirmed head and the lowest block
\* visited are not recorded.
compute_conf_times_without_tail(self, new_head_root, conf_info) ==
    LET walked == conf_times_loop(self, conf_info, new_head_root,
                    [conf_times |-> <<>>, empty_or_forked_slots |-> <<>>,
                     error |-> FALSE,
                     pre_slot |-> conf_info.nodes[new_head_root].slot])
    IN  [conf_times |-> walked.conf_times,
         empty_or_forked_slots |-> walked.empty_or_forked_slots,
         error |-> walked.error]

\* Mutant: the function returns where the reorg is found, without looking
\* at the slots below the lowest block visited.
compute_conf_times_returning_on_reorg(self, new_head_root, conf_info) ==
    LET old_head_slot == self.confirmed_head_slot
        walked == conf_times_loop(self, conf_info, new_head_root,
                    [conf_times |-> <<>>, empty_or_forked_slots |-> <<>>,
                     error |-> FALSE,
                     pre_slot |-> conf_info.nodes[new_head_root].slot])
    IN  [conf_times |-> walked.conf_times,
         empty_or_forked_slots |->
            walked.empty_or_forked_slots
                \o (IF ~walked.error /\ walked.pre_slot - old_head_slot > 1
                    THEN PyRange(old_head_slot + 1, walked.pre_slot) ELSE <<>>),
         error |-> walked.error]

\* Mutant: the slots below the lowest block visited are recorded up to and
\* including the slot of that block.
compute_conf_times_tail_including_lowest_block(self, new_head_root, conf_info) ==
    LET old_head_slot == self.confirmed_head_slot
        walked == conf_times_loop(self, conf_info, new_head_root,
                    [conf_times |-> <<>>, empty_or_forked_slots |-> <<>>,
                     error |-> FALSE,
                     pre_slot |-> conf_info.nodes[new_head_root].slot])
    IN  [conf_times |-> walked.conf_times,
         empty_or_forked_slots |->
            walked.empty_or_forked_slots
                \o (IF walked.pre_slot - old_head_slot > 1
                    THEN PyRange(old_head_slot + 1, walked.pre_slot + 1) ELSE <<>>),
         error |-> walked.error]

\* The list compute_conf_times returns, the slots it appends to
\* empty_or_forked_slots, and whether it logs the reorg error.
compute_conf_times(self, new_head_root, conf_info) ==
    LET old_head_slot == self.confirmed_head_slot
        walked == conf_times_loop(self, conf_info, new_head_root,
                    [conf_times |-> <<>>, empty_or_forked_slots |-> <<>>,
                     error |-> FALSE,
                     pre_slot |-> conf_info.nodes[new_head_root].slot])
    IN  [conf_times |-> walked.conf_times,
         empty_or_forked_slots |->
            walked.empty_or_forked_slots
                \o (IF walked.pre_slot - old_head_slot > 1
                    THEN PyRange(old_head_slot + 1, walked.pre_slot) ELSE <<>>),
         error |-> walked.error]

\* Mutant: the time is counted from the current slot to the confirmed head.
get_time_from_last_confirmed_block_reversed(self) ==
    (self.confirmed_head_slot - self.current_slot) * SLOT_LEN + self.time_in_current_slot

get_time_from_last_confirmed_block(self) ==
    (self.current_slot - self.confirmed_head_slot) * SLOT_LEN + self.time_in_current_slot


\* ------------------------------------------------------------ the transition

\* Mutant: the assertion is not evaluated (assertions stripped).
slots_in_order_unchecked(self, conf_info) == TRUE

\* The assertion that opens update_confirmed_head.
slots_in_order(self, conf_info) == self.current_slot <= conf_info.current_slot

\* Mutant: recording only when the snapshot is of the same slot as the
\* previous one.
record_conf_time_same_slot_only(self, conf_info) ==
    ~(self.current_slot < conf_info.current_slot)

\* record_conf_time: false when the snapshot is more than one slot after
\* the previous one.
record_conf_time(self, conf_info) == ~(self.current_slot + 1 < conf_info.current_slot)

\* Mutant: the set is replaced, not added to.
add_processed_slot_overwriting(processed, slot) == {slot}

\* self.processed_slots.add(self.current_slot)
add_processed_slot(processed, slot) == processed \cup {slot}

\* The engine once current_slot, time_in_current_slot and processed_slots
\* are updated.
enter_slot(self, conf_info) ==
    [self EXCEPT
        !.current_slot = conf_info.current_slot,
        !.time_in_current_slot = conf_info.current_time_in_slot,
        !.processed_slots = add_processed_slot(@, conf_info.current_slot)]

\* Mutant: any change of the candidate's slot counts as progress.
progress_is_made_on_any_change(new_slot, self) == new_slot # self.confirmed_head_slot

\* "progress is made"
progress_is_made(new_slot, self) == new_slot > self.confirmed_head_slot

\* "the confirmation head goes backward"
head_goes_backwards(new_slot, self) == new_slot < self.confirmed_head_slot

\* Mutant: a candidate below the stored confirmed head is logged and then
\* stored.
record_progress_rolling_back(self, conf_info, new_root, new_slot, recording) ==
    IF new_slot < self.confirmed_head_slot
    THEN [self |-> [self EXCEPT !.confirmed_head_root = new_root,
                                !.confirmed_head_slot = new_slot],
          log |-> {"warning: confirmation head goes backwards"}]
    ELSE IF new_slot > self.confirmed_head_slot /\ recording
    THEN LET computed == compute_conf_times(self, new_root, conf_info)
         IN  [self |-> [self EXCEPT
                            !.conf_times = @ \o computed.conf_times,
                            !.empty_or_forked_slots = @ \o computed.empty_or_forked_slots,
                            !.confirmed_head_root = new_root,
                            !.confirmed_head_slot = new_slot],
              log |-> IF computed.error
                      THEN {"error: confirmed block is forked"} ELSE {}]
    ELSE IF new_slot > self.confirmed_head_slot
    THEN [self |-> [self EXCEPT !.confirmed_head_root = new_root,
                                !.confirmed_head_slot = new_slot],
          log |-> {}]
    ELSE [self |-> self, log |-> {}]

\* Mutant: progress made without recording stores the slot of the
\* candidate and keeps the root stored before.
record_progress_keeping_the_root(self, conf_info, new_root, new_slot, recording) ==
    IF progress_is_made(new_slot, self)
    THEN IF recording
         THEN LET computed == compute_conf_times(self, new_root, conf_info)
              IN  [self |-> [self EXCEPT
                                !.conf_times = @ \o computed.conf_times,
                                !.empty_or_forked_slots =
                                    @ \o computed.empty_or_forked_slots,
                                !.confirmed_head_root = new_root,
                                !.confirmed_head_slot = new_slot],
                   log |-> IF computed.error
                           THEN {"error: confirmed block is forked"} ELSE {}]
         ELSE [self |-> [self EXCEPT !.confirmed_head_slot = new_slot],
               log |-> {}]
    ELSE [self |-> self,
          log |-> IF head_goes_backwards(new_slot, self)
                  THEN {"warning: confirmation head goes backwards"} ELSE {}]

\* The engine after the branch on the candidate confirmed head, and what
\* the logger receives in it at warning level or above.
record_progress(self, conf_info, new_root, new_slot, recording) ==
    IF progress_is_made(new_slot, self)
    THEN IF recording
         THEN LET computed == compute_conf_times(self, new_root, conf_info)
              IN  [self |-> [self EXCEPT
                                !.conf_times = @ \o computed.conf_times,
                                !.empty_or_forked_slots =
                                    @ \o computed.empty_or_forked_slots,
                                !.confirmed_head_root = new_root,
                                !.confirmed_head_slot = new_slot],
                   log |-> IF computed.error
                           THEN {"error: confirmed block is forked"} ELSE {}]
         ELSE [self |-> [self EXCEPT !.confirmed_head_root = new_root,
                                     !.confirmed_head_slot = new_slot],
               log |-> {}]
    ELSE [self |-> self,
          log |-> IF head_goes_backwards(new_slot, self)
                  THEN {"warning: confirmation head goes backwards"} ELSE {}]

\* self.times_from_confirmed_head.append(...)
append_time_from_confirmed_head(self) ==
    [self EXCEPT !.times_from_confirmed_head =
                    Append(@, get_time_from_last_confirmed_block(self))]

\* The locals of a call that are kept for inspection.
Locals(conf_info, recording, head_root, new_root, new_slot) ==
    [current_slot |-> conf_info.current_slot,
     record_conf_time |-> recording,
     head_root |-> head_root,
     confirmed_head_root |-> new_root,
     confirmed_head_slot |-> new_slot]

\* Mutant: the time from the confirmed head is taken before the confirmed
\* head is updated.
find_and_record_timing_before_update(self1, conf_info, recording) ==
    LET head_root == find_head_root(conf_info)
        found == find_confirmed_block_head(self1, conf_info, head_root)
        self2 == [self1 EXCEPT !.ffg_confirmed_checkpoint = found.ffg_confirmed_checkpoint]
        new_slot == conf_info.nodes[found.root].slot
        branch == record_progress(self2, conf_info, found.root, new_slot, recording)
    IN  IF found.raised
        THEN [self |-> self2, outcome |-> "AssertionError", log |-> {},
              locals |-> Locals(conf_info, recording, head_root, None, 0)]
        ELSE [self |-> [branch.self EXCEPT !.times_from_confirmed_head =
                            Append(@, get_time_from_last_confirmed_block(self2))],
              outcome |-> "returned",
              log |-> branch.log,
              locals |-> Locals(conf_info, recording, head_root, found.root, new_slot)]

\* The call from the head selection on, on the engine that entered the slot.
find_and_record(self1, conf_info, recording) ==
    LET head_root == find_head_root(conf_info)
        found == find_confirmed_block_head(self1, conf_info, head_root)
        self2 == [self1 EXCEPT !.ffg_confirmed_checkpoint = found.ffg_confirmed_checkpoint]
        new_slot == conf_info.nodes[found.root].slot
        branch == record_progress(self2, conf_info, found.root, new_slot, recording)
    IN  IF found.raised
        THEN [self |-> self2, outcome |-> "AssertionError", log |-> {},
              locals |-> Locals(conf_info, recording, head_root, None, 0)]
        ELSE [self |-> append_time_from_confirmed_head(branch.self),
              outcome |-> "returned",
              log |-> branch.log,
              locals |-> Locals(conf_info, recording, head_root, found.root, new_slot)]

\* One call of update_confirmed_head on engine `self`: the engine after it,
\* how the call ended, what it logged at warning level or above, and the
\* locals of the call.
update_confirmed_head(self, conf_info) ==
    IF ~slots_in_order(self, conf_info)
    THEN [self |-> self, outcome |-> "AssertionError", log |-> {},
          locals |-> Locals(conf_info, FALSE, None, None, 0)]
    ELSE find_and_record(enter_slot(self, conf_info), conf_info,
                         record_conf_time(self, conf_info))

\* ------------------------------------------------------------ the snapshots offered

\* The pairs of checkpoints a snapshot at `slot` can carry: the justified
\* block has been proposed and the finalized one is of an earlier epoch.
PairsAt(slot) ==
    {pair \in CheckpointPairs :
        /\ BlockSlot[pair[2]] <= slot
        /\ compute_epoch_at_slot(BlockSlot[pair[1]]) < compute_epoch_at_slot(slot)}

\* A block and its ancestors.
RECURSIVE Chain(_)
Chain(b) == IF b \notin Blocks THEN {} ELSE {b} \cup Chain(BlockParent[b])

\* The head of the snapshots taken at `slot`.
HeadAt(slot) == find_head_root(MkConfInfo(slot, 0, {}, <<"G", "A">>, 1))

\* The snapshots: weights are given along the chain of the head, the only
\* blocks whose weight the engine reads.
ConfInfos ==
    UNION {
        { MkConfInfo(slot, time, heavy, pair, committee_size) :
            time \in TimesInSlot,
            heavy \in SUBSET {b \in Chain(HeadAt(slot)) : BlockParent[b] \in Blocks},
            pair \in PairsAt(slot),
            committee_size \in CommitteeSizes }
        : slot \in SnapshotSlots }

\* ------------------------------------------------------------ state

VARIABLES
    confirmation_byzantine_threshold,  \* numerator over ThresholdDen
    confirmation_slashing_threshold,   \* numerator over ThresholdDen
    empty_or_forked_slots,
    confirmed_head_root,
    confirmed_head_slot,
    ffg_confirmed_checkpoint,
    current_slot,
    time_in_current_slot,
    times_from_confirmed_head,
    conf_times,
    processed_slots,
    outcome,        \* how the last call ended
    log,            \* what the last call logged at warning level or above
    locals,         \* the locals of the last call
    before,         \* the engine before the last call
    accepted,       \* the current_slot of every call that passed the ordering assertion
    calls,          \* the number of calls made
    weight_query,   \* the last committee weight computed on its own, with its arguments
    producer,       \* the producer: the files it wrote and its last query
    batch,          \* the batch run: the data directory and how far the run is
    evaluation,     \* the last safety test or weight evaluated on its own, with its inputs
    selection       \* the last head selected on its own, with its snapshot

engine == <<confirmation_byzantine_threshold, confirmation_slashing_threshold,
            empty_or_forked_slots, confirmed_head_root, confirmed_head_slot,
            ffg_confirmed_checkpoint, current_slot, time_in_current_slot,
            times_from_confirmed_head, conf_times, processed_slots>>

vars == <<engine, outcome, log, locals, before, accepted, calls, weight_query, producer,
          batch, evaluation, selection>>

\* The engine object.
Self ==
    [confirmation_byzantine_threshold |-> confirmation_byzantine_threshold,
     confirmation_slashing_threshold |-> confirmation_slashing_threshold,
     empty_or_forked_slots |-> empty_or_forked_slots,
     confirmed_head_root |-> confirmed_head_root,
     confirmed_head_slot |-> confirmed_head_slot,
     ffg_confirmed_checkpoint |-> ffg_confirmed_checkpoint,
     current_slot |-> current_slot,
     time_in_current_slot |-> time_in_current_slot,
     times_from_confirmed_head |-> times_from_confirmed_head,
     conf_times |-> conf_times,
     processed_slots |-> processed_slots]

\* What `before` keeps of an engine.
Kept(self) ==
    [confirmed_head_root |-> self.confirmed_head_root,
     confirmed_head_slot |-> self.confirmed_head_slot,
     ffg_confirmed_checkpoint |-> self.ffg_confirmed_checkpoint,
     current_slot |-> self.current_slot,
     conf_times |-> Len(self.conf_times),
     empty_or_forked_slots |-> Len(self.empty_or_forked_slots)]

\* ConfRule.__init__
Init ==
    /\ \E cfg \in ThresholdConfigs :
          /\ confirmation_byzantine_threshold = cfg[1]
          /\ confirmation_slashing_threshold = cfg[2]
    /\ empty_or_forked_slots = <<>>
    /\ confirmed_head_root = None
    /\ confirmed_head_slot = 0
    /\ ffg_confirmed_checkpoint = None
    /\ current_slot = 0
    /\ time_in_current_slot = 0
    /\ times_from_confirmed_head = <<>>
    /\ conf_times = <<>>
    /\ processed_slots = {}
    /\ outcome = "none"
    /\ log = {}
    /\ locals = [current_slot |-> 0, record_conf_time |-> FALSE, head_root |-> None,
                 confirmed_head_root |-> None, confirmed_head_slot |-> 0]
    /\ before = [confirmed_head_root |-> None, confirmed_head_slot |-> 0,
                 ffg_confirmed_checkpoint |-> None, current_slot |-> 0,
                 conf_times |-> 0, empty_or_forked_slots |-> 0]
    /\ accepted = <<>>
    /\ calls = 0
    /\ weight_query = [asked |-> FALSE, committee_size |-> 0, start_slot |-> 0,
                       end_slot |-> 0, total_active_balance |-> 0, weight |-> 0]
    /\ producer = [files |-> <<>>, runs |-> 0, crashed |-> FALSE, outcome |-> "none",
                   query |-> [current_slot |-> 0, time_in_current_slot |-> 0,
                              headers |-> "none", fork_choice |-> "none",
                              committees |-> [kind |-> "none", data |-> <<>>]]]
    /\ batch = [status |-> "none", directory |-> <<>>, sorted_files |-> <<>>, position |-> 1]
    /\ evaluation = [function |-> "none", byzantine |-> 0, slashing |-> 0,
                     committee_size |-> 0, parent_slot |-> 0, current_slot |-> 0,
                     validators |-> 0, value |-> FALSE, weight |-> 0]
    /\ selection = [asked |-> FALSE, conf_info |-> <<>>, head_root |-> None]

\* rule.update_confirmed_head(ci)
Call(ci) ==
    \E r \in {update_confirmed_head(Self, ci)} :
        /\ confirmation_byzantine_threshold' = r.self.confirmation_byzantine_threshold
        /\ confirmation_slashing_threshold' = r.self.confirmation_slashing_threshold
        /\ empty_or_forked_slots' = r.self.empty_or_forked_slots
        /\ confirmed_head_root' = r.self.confirmed_head_root
        /\ confirmed_head_slot' = r.self.confirmed_head_slot
        /\ ffg_confirmed_checkpoint' = r.self.ffg_confirmed_checkpoint
        /\ current_slot' = r.self.current_slot
        /\ time_in_current_slot' = r.self.time_in_current_slot
        /\ times_from_confirmed_head' = r.self.times_from_confirmed_head
        /\ conf_times' = r.self.conf_times
        /\ processed_slots' = r.self.processed_slots
        /\ outcome' = r.outcome
        /\ log' = r.log
        /\ locals' = r.locals
        /\ before' = Kept(Self)
        /\ accepted' = IF current_slot <= ci.current_slot
                       THEN Append(accepted, ci.current_slot) ELSE accepted
        /\ calls' = calls + 1
        /\ UNCHANGED <<weight_query, producer, evaluation, selection>>

UpdateConfirmedHead ==
    /\ calls < MaxCalls
    /\ \E ci \in ConfInfos : Call(ci)
    /\ UNCHANGED batch

Next == UpdateConfirmedHead

Spec == Init /\ [][Next]_vars

\* ------------------------------------------------------------ the weight estimator on its own
\* __get_committee_weight_between_slots applied to ranges of slots of
\* epochs 0, 1 and 2, for several committee sizes; the engine is not called.

WeightSlots == 0..MaxWeightSlot
WeightCommitteeSizes == {1, 2, 3}

\* The arguments and the result of one evaluation.
WeightOf(committee_size, start_slot, end_slot) ==
    [asked |-> TRUE,
     committee_size |-> committee_size,
     start_slot |-> start_slot,
     end_slot |-> end_slot,
     total_active_balance |->
        get_total_active_balance([committee_size |-> committee_size]),
     weight |-> get_committee_weight_between_slots(
                    [committee_size |-> committee_size], start_slot, end_slot)]

\* A first range is asked for.
AskWeight ==
    /\ ~weight_query.asked
    /\ \E committee_size \in WeightCommitteeSizes, start_slot \in WeightSlots,
          end_slot \in WeightSlots :
            weight_query' = WeightOf(committee_size, start_slot, end_slot)
    /\ UNCHANGED <<engine, outcome, log, locals, before, accepted, calls, producer, batch,
                   evaluation, selection>>

\* The range last asked for is asked for again with its end one slot later.
ExtendWeightRange ==
    /\ weight_query.asked
    /\ weight_query.end_slot < MaxWeightSlot
    /\ weight_query' = WeightOf(weight_query.committee_size, weight_query.start_slot,
                                weight_query.end_slot + 1)
    /\ UNCHANGED <<engine, outcome, log, locals, before, accepted, calls, producer, batch,
                   evaluation, selection>>

WeightNext == AskWeight \/ ExtendWeightRange

WeightSpec == Init /\ [][WeightNext]_vars


\* ------------------------------------------------------------ the producer
\* collect_data.py: one query of the beacon node per run of the loop; a
\* snapshot is written to the file <slot>_<time in slot>.json.

ProducerSlots == {94, 95}

\* What a query of the node gives: a well-formed answer, an answer lacking
\* the keys read from it, or a BeaconClientError.
NodeAnswers == {"ok", "malformed", "BeaconClientError"}

\* An entry of head_committee['data']: a committee with its validators, or
\* an entry without the key 'validators'.
CommitteeEntries == { [has_validators |-> TRUE, validators |-> 2],
                      [has_validators |-> FALSE, validators |-> 0] }

\* The answer of get_committees: a BeaconClientError, an answer without
\* 'data', one whose 'data' is null, or one whose 'data' is a list.
CommitteeAnswers ==
    { [kind |-> k, data |-> <<>>] : k \in {"BeaconClientError", "no_data", "null"} }
    \cup { [kind |-> "list", data |-> d] :
             d \in {<<>>} \cup {<<e>> : e \in CommitteeEntries}
                   \cup {<<e1, e2>> : e1 \in CommitteeEntries, e2 \in CommitteeEntries} }

Queries ==
    { [current_slot |-> slot, time_in_current_slot |-> time,
       headers |-> h, fork_choice |-> f, committees |-> c] :
        slot \in ProducerSlots, time \in TimesInSlot,
        h \in NodeAnswers, f \in NodeAnswers, c \in CommitteeAnswers }

\* for comm in head_committee['data']: committee_size += len(comm['validators'])
RECURSIVE committee_size_loop(_, _)
committee_size_loop(data, committee_size) ==
    IF data = <<>> THEN [raised |-> FALSE, committee_size |-> committee_size]
    ELSE IF ~Head(data).has_validators
    THEN [raised |-> TRUE, committee_size |-> committee_size]
    ELSE committee_size_loop(Tail(data), committee_size + Head(data).validators)

\* The committee size, or that the loop over the answer raised.
count_committee_size(committees) ==
    IF committees.kind # "list"
    THEN [raised |-> TRUE, committee_size |-> 0]
    ELSE committee_size_loop(committees.data, 0)

\* Mutant: an exception in the loop over the committees is swallowed and
\* the committee size counted so far is used.
get_confirmation_context_swallowing(query) ==
    LET counted == count_committee_size(query.committees)
    IN  IF "BeaconClientError" \in {query.headers, query.fork_choice, query.committees.kind}
        THEN [raised |-> "NodeError"]
        ELSE IF "malformed" \in {query.fork_choice, query.headers}
        THEN [raised |-> "KeyError"]
        ELSE [raised |-> "no",
              value |-> [current_slot |-> query.current_slot,
                         justified_checkpoint |-> "of fork_choice",
                         finalized_checkpoint |-> "of fork_choice",
                         nodes |-> "of fork_choice",
                         head_root |-> "of headers",
                         committee_size |-> counted.committee_size]]

\* get_confirmation_context: the error it raises, or the snapshot.
get_confirmation_context(query) ==
    LET counted == count_committee_size(query.committees)
    IN  IF "BeaconClientError" \in {query.headers, query.fork_choice, query.committees.kind}
        THEN [raised |-> "NodeError"]
        ELSE IF counted.raised
        THEN [raised |-> "ForkChoiceDataNotUpdatedError"]
        ELSE IF "malformed" \in {query.fork_choice, query.headers}
        THEN [raised |-> "KeyError"]
        ELSE [raised |-> "no",
              value |-> [current_slot |-> query.current_slot,
                         justified_checkpoint |-> "of fork_choice",
                         finalized_checkpoint |-> "of fork_choice",
                         nodes |-> "of fork_choice",
                         head_root |-> "of headers",
                         committee_size |-> counted.committee_size]]

\* store_data: the name of the file and what is appended to it.
store_data(files, data, slot, time) ==
    Append(files, [name |-> <<slot, time>>, data |-> data])

\* run: the files after it and how it ended.
run(files, query) ==
    LET confirmation_info == get_confirmation_context(query)
    IN  IF confirmation_info.raised # "no"
        THEN [files |-> files, outcome |-> confirmation_info.raised]
        ELSE [files |->
                store_data(files,
                           [current_slot |-> confirmation_info.value.current_slot,
                            justified_checkpoint |-> confirmation_info.value.justified_checkpoint,
                            finalized_checkpoint |-> confirmation_info.value.finalized_checkpoint,
                            nodes |-> confirmation_info.value.nodes,
                            head_root |-> confirmation_info.value.head_root,
                            committee_size |-> confirmation_info.value.committee_size,
                            current_time_in_slot |-> query.time_in_current_slot],
                           query.current_slot, query.time_in_current_slot),
              outcome |-> "stored"]

\* One turn of the loop of the script: NodeError and
\* ForkChoiceDataNotUpdatedError are caught and the loop goes on; any other
\* exception ends the script.
Run ==
    /\ producer.runs < MaxRuns
    /\ ~producer.crashed
    /\ \E query \in Queries :
          \E r \in {run(producer.files, query)} :
              producer' = [files |-> r.files,
                           runs |-> producer.runs + 1,
                           crashed |-> r.outcome = "KeyError",
                           outcome |-> r.outcome,
                           query |-> query]
    /\ UNCHANGED <<engine, outcome, log, locals, before, accepted, calls, weight_query,
                   batch, evaluation, selection>>

ProducerNext == Run

ProducerSpec == Init /\ [][ProducerNext]_vars

\* ------------------------------------------------------------ the batch run
\* analyze_data.execute_rule on a data directory of up to MaxCalls files.
\* A file is named after a slot and a time in the slot; the snapshot in it
\* is of the slot of the name or, in a directory that was tampered with, of
\* another slot.

FileNames == SnapshotSlots \X TimesInSlot

\* The directories: for each file name in the directory, the current_slot
\* of the snapshot in the file.
Directories ==
    UNION { [names -> SnapshotSlots] :
              names \in {n \in SUBSET FileNames : Cardinality(n) \in 1..MaxCalls} }

\* read_json: the snapshot in the file; all blocks of the head's chain
\* carry weight.
read_json(directory, file_name) ==
    MkConfInfo(directory[file_name], file_name[2],
               Chain(HeadAt(directory[file_name])),
               IF compute_epoch_at_slot(directory[file_name]) = 3
               THEN <<"A", "C">> ELSE <<"G", "A">>,
               1)

\* The key the names are sorted by: (slot, time_in_slot).
file_name_before(x, y) == x[1] < y[1] \/ (x[1] = y[1] /\ x[2] <= y[2])

\* file_name_arithmetic.sort(key=lambda x: (x[0], x[1]))
RECURSIVE sort_by_slot_and_time(_)
sort_by_slot_and_time(names) ==
    IF names = {} THEN <<>>
    ELSE LET first == CHOOSE x \in names : \A y \in names : file_name_before(x, y)
         IN  <<first>> \o sort_by_slot_and_time(names \ {first})

sort_file_names(directory) == sort_by_slot_and_time(DOMAIN directory)

\* A loop that catches the exception and goes on with the next file.
loop_after_catching_the_error(run_state, call_outcome) ==
    [run_state EXCEPT
       !.status = IF run_state.position = Len(run_state.sorted_files)
                  THEN "done" ELSE "running",
       !.position = @ + 1]

\* What becomes of the loop of execute_rule after a call of
\* update_confirmed_head: an exception leaves the loop and the function.
loop_after(run_state, call_outcome) ==
    IF call_outcome # "returned" THEN [run_state EXCEPT !.status = "aborted"]
    ELSE [run_state EXCEPT
            !.status = IF run_state.position = Len(run_state.sorted_files)
                       THEN "done" ELSE "running",
            !.position = @ + 1]

\* sorted_files = sort_file_names(data_directory)
ListFiles ==
    /\ batch.status = "none"
    /\ \E directory \in Directories :
          batch' = [status |-> "running", directory |-> directory,
                    sorted_files |-> sort_file_names(directory), position |-> 1]
    /\ UNCHANGED <<engine, outcome, log, locals, before, accepted, calls, weight_query,
                   producer, evaluation, selection>>

\* One turn of the loop: the next file is read and applied.
ApplyFile ==
    /\ batch.status = "running"
    /\ Call(read_json(batch.directory, batch.sorted_files[batch.position]))
    /\ batch' = loop_after(batch, outcome')

BatchNext == ListFiles \/ ApplyFile

BatchSpec == Init /\ [][BatchNext]_vars

\* ------------------------------------------------------------ the safety tests on their own
\* __is_one_lmd_confirmed, __is_ffg_confirmed and
\* __get_remaining_weight_in_epoch applied to a snapshot of two blocks: P,
\* and X built on P in the snapshot's current slot.  The weight that is
\* read (of X by the LMD test, of P, the checkpoint block of X, by the FFG
\* test) is that of 0 to MaxValidators validators.

EvalThresholds == { <<2, 1>>, <<6, 2>> }
EvalCommitteeSizes == {1, 3}
EvalParentSlots == {32, 62, 64}
EvalSlots == {65, 66, 67, 68, 73, 95}

EvalSelf(thresholds, slot) ==
    [confirmation_byzantine_threshold |-> thresholds[1],
     confirmation_slashing_threshold |-> thresholds[2],
     ffg_confirmed_checkpoint |-> None,
     confirmed_head_root |-> None,
     current_slot |-> slot]

EvalConfInfo(parent_slot, slot, parent_weight, weight, committee_size) ==
    [current_slot |-> slot,
     current_time_in_slot |-> 0,
     order |-> <<"P", "X">>,
     nodes |-> [b \in {"P", "X"} |->
                  [block_root |-> b,
                   slot |-> IF b = "P" THEN parent_slot ELSE slot,
                   parent_root |-> IF b = "P" THEN "Pparent" ELSE "P",
                   weight |-> IF b = "P" THEN parent_weight ELSE weight]],
     justified_checkpoint |-> [root |-> "P"],
     finalized_checkpoint |-> [root |-> "P"],
     committee_size |-> committee_size]

Evaluated(function, thresholds, committee_size, parent_slot, slot, validators, value, weight) ==
    [function |-> function, byzantine |-> thresholds[1], slashing |-> thresholds[2],
     committee_size |-> committee_size, parent_slot |-> parent_slot,
     current_slot |-> slot, validators |-> validators, value |-> value,
     weight |-> weight]

EvaluateOneLmd ==
    /\ evaluation.function = "none"
    /\ \E thresholds \in EvalThresholds, committee_size \in EvalCommitteeSizes,
          parent_slot \in EvalParentSlots, slot \in EvalSlots,
          validators \in 0..MaxValidators :
            evaluation' =
                Evaluated("is_one_lmd_confirmed", thresholds, committee_size,
                          parent_slot, slot, validators,
                          is_one_lmd_confirmed_in_floats(
                              EvalSelf(thresholds, slot),
                              EvalConfInfo(parent_slot, slot, 0,
                                           validators * VALIDATOR_BALANCE,
                                           committee_size),
                              "X"),
                          0)
    /\ UNCHANGED <<engine, outcome, log, locals, before, accepted, calls, weight_query,
                   producer, batch, selection>>

EvaluateFfg ==
    /\ evaluation.function = "none"
    /\ \E thresholds \in EvalThresholds, committee_size \in EvalCommitteeSizes,
          parent_slot \in EvalParentSlots, slot \in EvalSlots,
          validators \in 0..MaxValidators :
            evaluation' =
                Evaluated("is_ffg_confirmed", thresholds, committee_size,
                          parent_slot, slot, validators,
                          is_ffg_confirmed_in_floats(
                              EvalSelf(thresholds, slot),
                              EvalConfInfo(parent_slot, slot,
                                           validators * VALIDATOR_BALANCE, 0,
                                           committee_size),
                              "X").value,
                          0)
    /\ UNCHANGED <<engine, outcome, log, locals, before, accepted, calls, weight_query,
                   producer, batch, selection>>

EvaluateRemainingWeight ==
    /\ evaluation.function = "none"
    /\ \E committee_size \in 0..3, slot \in WeightSlots :
            evaluation' =
                Evaluated("get_remaining_weight_in_epoch", <<0, 0>>, committee_size,
                          0, slot, 0, FALSE,
                          get_remaining_weight_in_epoch(
                              [current_slot |-> slot],
                              [committee_size |-> committee_size]))
    /\ UNCHANGED <<engine, outcome, log, locals, before, accepted, calls, weight_query,
                   producer, batch, selection>>

EvaluationNext == EvaluateOneLmd \/ EvaluateFfg \/ EvaluateRemainingWeight

EvaluationSpec == Init /\ [][EvaluationNext]_vars

\* ------------------------------------------------------------ the head selection on its own
\* ConfRule.__find_head_root on snapshots of three blocks around slot 100:
\* P is the root of the tree, X builds on P, and Y builds on P or on X.  The
\* nodes map lists the blocks in any order (the order of the beacon node's
\* fork-choice dump), X and Y are with or without weight, and the
\* snapshot's head_root field names any of the three.

HeadRoots == {"P", "X", "Y"}
HeadSlots == {98, 99, 100, 101}

HeadOrders ==
    { order \in [1..3 -> HeadRoots] : \A i, j \in 1..3 : order[i] = order[j] => i = j }

\* Parent links and slots: the slots decrease along the parent links.
HeadTrees ==
    { tree \in [parent_of_Y : {"P", "X"}, slots : [HeadRoots -> HeadSlots]] :
        /\ tree.slots["P"] < tree.slots["X"]
        /\ tree.slots[tree.parent_of_Y] < tree.slots["Y"] }

HeadConfInfo(tree, order, heavy, head_root_field) ==
    [order |-> order,
     nodes |-> [b \in HeadRoots |->
                  [block_root |-> b,
                   slot |-> tree.slots[b],
                   parent_root |-> CASE b = "P" -> "Pparent" [] b = "X" -> "P"
                                     [] b = "Y" -> tree.parent_of_Y,
                   weight |-> IF b \in heavy \/ b = "P" THEN HeavyWeight(1) ELSE 0]],
     head_root |-> head_root_field]

\* head_root = self.__find_head_root(conf_info)
SelectHead ==
    /\ ~selection.asked
    /\ \E tree \in HeadTrees, order \in HeadOrders, heavy \in SUBSET {"X", "Y"},
          head_root_field \in HeadRoots :
            \E conf_info \in {HeadConfInfo(tree, order, heavy, head_root_field)} :
                selection' = [asked |-> TRUE, conf_info |-> conf_info,
                              head_root |-> find_head_root(conf_info)]
    /\ UNCHANGED <<engine, outcome, log, locals, before, accepted, calls, weight_query,
                   producer, batch, evaluation>>

HeadNext == SelectHead

HeadSpec == Init /\ [][HeadNext]_vars

\* ------------------------------------------------------------ vocabulary of the claims

Warning == "warning: confirmation head goes backwards"
ReorgError == "error: confirmed block is forked"

\* A step that is one call of update_confirmed_head.
IsCall == calls' = calls + 1

\* What a step appended to a list.
Appended(after, prior) == SubSeq(after, Len(prior) + 1, Len(after))

\* The slots of a block and its ancestors.
ChainSlots(root) == {BlockSlot[b] : b \in Chain(root)}

\* The slots strictly between a and b that carry no block on the chain of root.
SkippedSlots(a, b, root) == {s \in (a + 1)..(b - 1) : s \notin ChainSlots(root)}

\* The slots above a, up to b, of the blocks on the chain of root.
NewlyConfirmedSlots(a, b, root) == {s \in (a + 1)..b : s \in ChainSlots(root)}

\* The slot a confirmation time was computed for, in a call at slot `cur`,
\* `time` seconds into it.
SlotOfSample(sample, cur, time) == cur - ((sample - time) \div SLOT_LEN)

\* How often x occurs in a list.
Occurrences(q, x) == Cardinality({i \in DOMAIN q : q[i] = x})

\* From the head down to the finalized checkpoint block, along parent links.
RECURSIVE PathToFinalized(_, _)
PathToFinalized(ci, root) ==
    IF root = ci.finalized_checkpoint.root \/ ci.nodes[root].parent_root \notin DOMAIN ci.nodes
    THEN <<root>>
    ELSE <<root>> \o PathToFinalized(ci, ci.nodes[root].parent_root)

\* The nodes form a tree with strictly decreasing slots along parent links
\* and the finalized checkpoint block is the head or one of its ancestors.
WellFormed(ci) ==
    /\ \A b \in DOMAIN ci.nodes :
          ci.nodes[b].parent_root \in DOMAIN ci.nodes
             => ci.nodes[ci.nodes[b].parent_root].slot < ci.nodes[b].slot
    /\ ci.finalized_checkpoint.root \in SeqToSet(PathToFinalized(ci, find_head_root(ci)))

\* The snapshots the rule is evaluated on: those offered, and those whose
\* justified checkpoint is still the finalized block G.
RuleConfInfos ==
    ConfInfos \cup
    UNION {
        { MkConfInfo(slot, time, heavy, <<"G", "G">>, committee_size) :
            time \in TimesInSlot,
            heavy \in SUBSET {b \in Chain(HeadAt(slot)) : BlockParent[b] \in Blocks},
            committee_size \in CommitteeSizes }
        : slot \in SnapshotSlots }

\* The checkpoint block of `epoch` on the chain of block b: the block of
\* the chain with the highest slot not after the first slot of the epoch,
\* None where the chain has no block that early.
CheckpointOnChain(b, epoch) ==
    LET early == {a \in Chain(b) : BlockSlot[a] <= epoch * SLOTS_PER_EPOCH}
    IN  IF early = {} THEN None
        ELSE CHOOSE a \in early : \A other \in early : BlockSlot[other] <= BlockSlot[a]

\* How many epochs the block lies before the engine's current epoch.
EpochOffset(self, b) ==
    compute_epoch_at_slot(self.current_slot) - compute_epoch_at_slot(BlockSlot[b])

\* The blocks on the chain of root above slot a, from root downwards.
RECURSIVE VisitedAbove(_, _)
VisitedAbove(root, a) ==
    IF root \notin Blocks \/ BlockSlot[root] <= a THEN <<>>
    ELSE <<root>> \o VisitedAbove(BlockParent[root], a)

\* The keys of a snapshot file.
SnapshotKeys == {"current_slot", "justified_checkpoint", "finalized_checkpoint",
                 "nodes", "head_root", "committee_size", "current_time_in_slot"}

\* The committee answer was returned and lacks 'data', has a null 'data' or
\* has an entry without 'validators'.
CommitteeDataMissingOrMalformed(query) ==
    /\ "BeaconClientError" \notin {query.headers, query.fork_choice, query.committees.kind}
    /\ \/ query.committees.kind \in {"no_data", "null"}
       \/ \E i \in DOMAIN query.committees.data : ~query.committees.data[i].has_validators

\* The validators of all committees of an answer.
RECURSIVE TotalValidators(_)
TotalValidators(data) ==
    IF data = <<>> THEN 0 ELSE Head(data).validators + TotalValidators(Tail(data))

\* ------------------------------------------------------------ claims

\* C1: a call whose snapshot's current_slot is below the engine's
\* current_slot fails with the assertion error and changes no field of the
\* engine.
C1_OutOfOrderRejected ==
    [][ (IsCall /\ locals'.current_slot < current_slot)
            => (outcome' = "AssertionError" /\ UNCHANGED engine) ]_vars

\* An engine that has confirmed a head was offered an earlier slot.
C1_Witness ==
    /\ outcome = "AssertionError"
    /\ locals.current_slot < current_slot
    /\ confirmed_head_root # None
    /\ Len(times_from_confirmed_head) >= 2

\* C2: confirmed_head_slot never decreases from one call to the next, and
\* a call whose candidate confirmed head is below the stored one logs the
\* warning.
C2_ConfirmedSlotMonotone ==
    [][ IsCall =>
          /\ confirmed_head_slot' >= confirmed_head_slot
          /\ (outcome' = "returned" /\ locals'.confirmed_head_slot < confirmed_head_slot)
                => Warning \in log' ]_vars

\* A call found a candidate below the stored confirmed head.
C2_Witness ==
    /\ outcome = "returned"
    /\ locals.confirmed_head_slot < confirmed_head_slot
    /\ Warning \in log

\* C3: in every engine state a call is made from, for every snapshot the
\* engine accepts, a second application of the snapshot right after the first
\* leaves confirmed_head_slot, conf_times and the size of processed_slots
\* as the first application left them.
C3_SameSnapshotTwice ==
    \A ci \in IF calls < MaxCalls THEN ConfInfos ELSE {} :
        \A first \in {update_confirmed_head(Self, ci)} :
            first.outcome = "returned" =>
                \A second \in {update_confirmed_head(first.self, ci)} :
                    /\ second.outcome = "returned"
                    /\ second.self.confirmed_head_slot = first.self.confirmed_head_slot
                    /\ second.self.conf_times = first.self.conf_times
                    /\ Cardinality(second.self.processed_slots)
                          = Cardinality(first.self.processed_slots)

\* The last call moved the confirmed head and the tracked checkpoint, and
\* a snapshot of the same slot and time that would have done so is applied
\* again.
C3_Witness ==
    /\ outcome = "returned"
    /\ before.confirmed_head_root \notin {None, confirmed_head_root}
    /\ before.ffg_confirmed_checkpoint # ffg_confirmed_checkpoint
    /\ \E ci \in ConfInfos :
          /\ ci.current_slot = current_slot
          /\ ci.current_time_in_slot = time_in_current_slot
          /\ \E again \in {update_confirmed_head(Self, ci)} :
                /\ again.outcome = "returned"
                /\ again.locals.confirmed_head_root = confirmed_head_root
                /\ again.locals.confirmed_head_root # again.locals.head_root
                /\ Len(again.self.times_from_confirmed_head)
                      = Len(times_from_confirmed_head) + 1

\* C4: in a recording call that moves the confirmed head from slot a to
\* slot b > a, the slots appended to empty_or_forked_slots are exactly the
\* slots between a and b with no block on the chain of the new confirmed
\* head, each once, and no confirmation time is appended for any of them.
C4_GapDetection ==
    [][ (/\ IsCall
         /\ outcome' = "returned"
         /\ locals'.record_conf_time
         /\ confirmed_head_slot' > confirmed_head_slot)
        => LET skipped == SkippedSlots(confirmed_head_slot, confirmed_head_slot',
                                       confirmed_head_root')
               new_empty == Appended(empty_or_forked_slots', empty_or_forked_slots)
               new_times == Appended(conf_times', conf_times)
           IN  /\ SeqToSet(new_empty) = skipped
               /\ Len(new_empty) = Cardinality(skipped)
               /\ \A i \in DOMAIN new_times :
                     SlotOfSample(new_times[i], current_slot', time_in_current_slot')
                        \notin skipped ]_vars

\* A recording call moved the confirmed head from B (slot 94) to D (slot
\* 97) over the empty slot 96.
C4_Witness ==
    /\ outcome = "returned"
    /\ locals.record_conf_time
    /\ before.confirmed_head_root = "B"
    /\ confirmed_head_root = "D"
    /\ Len(empty_or_forked_slots) = before.empty_or_forked_slots + 1
    /\ empty_or_forked_slots[Len(empty_or_forked_slots)] = 96
    /\ Len(conf_times) = before.conf_times + 2

\* C5 as stated: in every call that moves the confirmed head on from an
\* earlier confirmed head, recording or not, every slot skipped between the
\* two is recorded once in empty_or_forked_slots.
C5_Original ==
    [][ (/\ IsCall
         /\ outcome' = "returned"
         /\ confirmed_head_root # None
         /\ confirmed_head_slot' > confirmed_head_slot)
        => \A s \in SkippedSlots(confirmed_head_slot, confirmed_head_slot',
                                 confirmed_head_root') :
              Occurrences(empty_or_forked_slots', s) = 1 ]_vars

\* C5 amended: in every recording call that moves the confirmed head,
\* every slot skipped between the old and the new confirmed head occurs
\* exactly once in empty_or_forked_slots, no appended confirmation time is
\* for a skipped slot, and the appended confirmation times are for pairwise
\* different slots that became confirmed in the call; a call that moves the
\* confirmed head without recording appends to neither list.
C5_SkippedOnceWhenRecording ==
    [][ (/\ IsCall
         /\ outcome' = "returned"
         /\ confirmed_head_slot' > confirmed_head_slot)
        => IF locals'.record_conf_time
           THEN LET skipped == SkippedSlots(confirmed_head_slot, confirmed_head_slot',
                                            confirmed_head_root')
                    fresh == NewlyConfirmedSlots(confirmed_head_slot, confirmed_head_slot',
                                                 confirmed_head_root')
                    new_times == Appended(conf_times', conf_times)
                    slot_of(i) == SlotOfSample(new_times[i], current_slot',
                                               time_in_current_slot')
                IN  /\ \A s \in skipped : Occurrences(empty_or_forked_slots', s) = 1
                    /\ \A i \in DOMAIN new_times :
                          /\ slot_of(i) \in fresh
                          /\ slot_of(i) \notin skipped
                          /\ \A j \in DOMAIN new_times : slot_of(j) = slot_of(i) => j = i
           ELSE /\ conf_times' = conf_times
                /\ empty_or_forked_slots' = empty_or_forked_slots ]_vars

\* A recording call moved the confirmed head from A (slot 64) to C (slot
\* 95): 65..93 are recorded, two confirmation times are appended.
C5_Witness ==
    /\ outcome = "returned"
    /\ locals.record_conf_time
    /\ before.confirmed_head_root = "A"
    /\ confirmed_head_root = "C"
    /\ Len(empty_or_forked_slots) = before.empty_or_forked_slots + 29
    /\ Len(conf_times) = before.conf_times + 2

\* C6: the number of processed slots is the number of different
\* current_slot values among the snapshots ingested.
C6_ProcessedSlotsCount ==
    Cardinality(processed_slots) = Cardinality(SeqToSet(accepted))

\* Three snapshots were ingested, two of them of the same slot, and the
\* confirmed head did not move after the first.
C6_Witness ==
    /\ Len(accepted) = 3
    /\ Cardinality(processed_slots) = 2
    /\ confirmed_head_slot = before.confirmed_head_slot
    /\ Len(times_from_confirmed_head) = 3

\* C7: a call more than one slot after the previous one appends nothing to
\* conf_times and still moves the confirmed head to a higher candidate; a
\* call at most one slot after the previous one records, so that a higher
\* candidate appends confirmation times.
C7_RecordingOnlyWhenContiguous ==
    [][ (IsCall /\ outcome' = "returned")
        => LET higher == locals'.confirmed_head_slot > confirmed_head_slot
           IN  IF locals'.current_slot > current_slot + 1
               THEN /\ ~locals'.record_conf_time
                    /\ conf_times' = conf_times
                    /\ higher => /\ confirmed_head_root' = locals'.confirmed_head_root
                                 /\ confirmed_head_slot' = locals'.confirmed_head_slot
               ELSE /\ locals'.record_conf_time
                    /\ higher => Len(conf_times') > Len(conf_times) ]_vars

\* A call two or more slots after the previous one moved the confirmed
\* head on from an earlier confirmed head.
C7_Witness ==
    /\ outcome = "returned"
    /\ before.current_slot + 1 < current_slot
    /\ before.confirmed_head_root # None
    /\ confirmed_head_slot > before.confirmed_head_slot
    /\ confirmed_head_root = locals.confirmed_head_root
    /\ Len(conf_times) = before.conf_times

\* C8: a call whose candidate confirmed head is below the stored one
\* returns, logs the warning and leaves confirmed_head_root,
\* confirmed_head_slot, conf_times and empty_or_forked_slots as they were;
\* the engine then still accepts a snapshot.
C8_RegressionNotFatal ==
    /\ [][ (/\ IsCall
            /\ locals'.confirmed_head_root # None
            /\ locals'.confirmed_head_slot < confirmed_head_slot)
           => /\ outcome' = "returned"
              /\ Warning \in log'
              /\ UNCHANGED <<confirmed_head_root, confirmed_head_slot,
                             conf_times, empty_or_forked_slots>> ]_vars
    /\ [](Warning \in log =>
            \E ci \in ConfInfos : update_confirmed_head(Self, ci).outcome = "returned")

\* After a call that found a lower candidate, a snapshot moves the
\* confirmed head on.
C8_Witness ==
    /\ Warning \in log
    /\ outcome = "returned"
    /\ confirmed_head_root = before.confirmed_head_root
    /\ \E ci \in ConfInfos :
          \E later \in {update_confirmed_head(Self, ci)} :
              /\ later.outcome = "returned"
              /\ later.self.confirmed_head_slot > confirmed_head_slot

\* C9: in every engine state a call is made from, for every snapshot whose
\* nodes form a tree with slots decreasing along parent links and whose
\* finalized checkpoint block is the head or an ancestor of it, the walk
\* from the head ends, at the first block from the head for which
\* is_confirmed holds, and that block is not below the finalized
\* checkpoint block.
C9_WalkFindsFirstConfirmed ==
    \A ci \in IF calls < MaxCalls THEN ConfInfos ELSE {} :
        (slots_in_order(Self, ci) /\ WellFormed(ci)) =>
            \A self1 \in {enter_slot(Self, ci)} :
                \A found \in {find_confirmed_block_head(self1, ci, find_head_root(ci))} :
                    LET path == PathToFinalized(ci, find_head_root(ci))
                    IN  /\ ~found.raised
                        /\ \E i \in DOMAIN path :
                              /\ path[i] = found.root
                              /\ is_confirmed(self1, ci, path[i]).value
                              /\ \A j \in 1..(i - 1) :
                                    ~is_confirmed(self1, ci, path[j]).value

\* The walk of the last call passed the head and its parent.
C9_Witness ==
    /\ outcome = "returned"
    /\ locals.head_root = "D"
    /\ locals.confirmed_head_root \in {"B", "A", "G"}

\* C10: for every snapshot and every engine state a call is made from,
\* is_lmd_confirmed and is_confirmed are true of the finalized checkpoint
\* block and leave the engine as it is, also where that block is the root
\* of the tree (its parent is no node), lies two epochs back, or carries no
\* weight on its chain.
C10_FinalizedConfirmedAtOnce ==
    \A ci \in IF calls < MaxCalls THEN ConfInfos ELSE {} :
        \A self \in {Self, enter_slot(Self, ci)} :
            LET root == ci.finalized_checkpoint.root
            IN  /\ is_lmd_confirmed(self, ci, root)
                /\ \A c \in {is_confirmed(self, ci, root)} :
                      /\ c.value
                      /\ ~c.raised
                      /\ c.ffg_confirmed_checkpoint = self.ffg_confirmed_checkpoint

\* In epoch 3 a call returned the finalized block G of epoch 1, the root of
\* the tree, as the candidate confirmed head.
C10_Witness ==
    /\ outcome = "returned"
    /\ compute_epoch_at_slot(current_slot) = 3
    /\ locals.confirmed_head_root = "G"
    /\ confirmed_head_root # None

\* C11: the committee weight of the range from the first to the last slot
\* of one epoch is the total active balance, 32 committees of
\* committee_size validators, with nothing added.
C11_FullEpochIsTotalBalance ==
    (/\ weight_query.asked
     /\ weight_query.start_slot % SLOTS_PER_EPOCH = 0
     /\ weight_query.end_slot = weight_query.start_slot + SLOTS_PER_EPOCH - 1)
    => /\ weight_query.weight = weight_query.total_active_balance
       /\ weight_query.weight
             = SLOTS_PER_EPOCH * weight_query.committee_size * VALIDATOR_BALANCE

\* The weight of epoch 1, slots 32 to 63, was computed for committees of 3.
C11_Witness ==
    /\ weight_query.asked
    /\ weight_query.committee_size = 3
    /\ weight_query.start_slot = 32
    /\ weight_query.end_slot = 63
    /\ weight_query.weight = 3 * SLOTS_PER_EPOCH * VALIDATOR_BALANCE

\* C12: with the start of the range and the committee size fixed, the
\* committee weight does not decrease when the end of the range moves one
\* slot later, and it is 0 for a range whose start is after its end.
C12_WeightMonotone ==
    /\ [][ (/\ weight_query.asked
            /\ weight_query'.committee_size = weight_query.committee_size
            /\ weight_query'.start_slot = weight_query.start_slot
            /\ weight_query'.end_slot = weight_query.end_slot + 1)
           => weight_query.weight <= weight_query'.weight ]_vars
    /\ []( (weight_query.asked /\ weight_query.start_slot > weight_query.end_slot)
            => weight_query.weight = 0 )

\* C13: in every engine state a call is made from, for every snapshot the
\* engine accepts and every block on the chain of its head that is neither
\* the finalized checkpoint block nor the confirmed head: a block of the
\* current epoch is confirmed exactly if the checkpoint of the previous
\* epoch on its chain is the justified or the finalized checkpoint block,
\* the block is LMD-confirmed and it is FFG-confirmed; a block two or more
\* epochs back is not confirmed.
C13_CurrentEpochRule ==
    \A ci \in IF calls < MaxCalls THEN RuleConfInfos ELSE {} :
        slots_in_order(Self, ci) =>
            \A self1 \in {enter_slot(Self, ci)} :
                \A b \in Chain(find_head_root(ci)) :
                    (b # ci.finalized_checkpoint.root /\ b # self1.confirmed_head_root) =>
                        LET current_epoch == compute_epoch_at_slot(self1.current_slot)
                            confirmed == is_confirmed(self1, ci, b).value
                        IN  /\ EpochOffset(self1, b) = 0 =>
                                (confirmed <=>
                                    /\ CheckpointOnChain(b, current_epoch - 1)
                                          \in {ci.justified_checkpoint.root,
                                               ci.finalized_checkpoint.root}
                                    /\ is_lmd_confirmed(self1, ci, b)
                                    /\ is_ffg_confirmed(self1, ci, b).value)
                            /\ EpochOffset(self1, b) >= 2 => ~confirmed

\* The last call confirmed D, a block of its epoch, by the rule; and a
\* snapshot that finalizes A shows G, two epochs back, which is then
\* neither finalized nor the confirmed head and is not confirmed.
C13_Witness ==
    /\ outcome = "returned"
    /\ locals.confirmed_head_root = "D"
    /\ before.confirmed_head_root # "D"
    /\ confirmed_head_root = "D"
    /\ \E ci \in RuleConfInfos :
          /\ ci.current_slot = 97
          /\ ci.finalized_checkpoint.root = "A"
          /\ EpochOffset(enter_slot(Self, ci), "G") = 2
          /\ ~is_confirmed(enter_slot(Self, ci), ci, "G").value

\* C14 as stated, the epochs counted back from the current epoch as in
\* C13: a block of the previous epoch that is neither finalized nor the
\* confirmed head is confirmed, where the checkpoint of two epochs back on
\* its chain is the finalized block, exactly if it is LMD-confirmed, and
\* otherwise exactly if that checkpoint is the tracked ffg_confirmed_checkpoint
\* and the justified block, the block is LMD-confirmed and the checkpoint of
\* three epochs back is the finalized block.
C14_Original ==
    \A ci \in IF calls < MaxCalls THEN RuleConfInfos ELSE {} :
        slots_in_order(Self, ci) =>
            \A self1 \in {enter_slot(Self, ci)} :
                \A b \in Chain(find_head_root(ci)) :
                    (/\ b # ci.finalized_checkpoint.root
                     /\ b # self1.confirmed_head_root
                     /\ EpochOffset(self1, b) = 1) =>
                        LET current_epoch == compute_epoch_at_slot(self1.current_slot)
                            two_back == CheckpointOnChain(b, current_epoch - 2)
                            three_back == CheckpointOnChain(b, current_epoch - 3)
                            confirmed == is_confirmed(self1, ci, b).value
                        IN  IF two_back = ci.finalized_checkpoint.root
                            THEN confirmed <=> is_lmd_confirmed(self1, ci, b)
                            ELSE confirmed <=>
                                    /\ two_back = self1.ffg_confirmed_checkpoint
                                    /\ two_back = ci.justified_checkpoint.root
                                    /\ is_lmd_confirmed(self1, ci, b)
                                    /\ three_back = ci.finalized_checkpoint.root

\* C14 amended: in every engine state a call is made from, for every
\* snapshot the engine accepts and every block of the previous epoch on the
\* chain of its head that is neither finalized nor the confirmed head: where
\* the checkpoint of the previous epoch on its chain (the one C13 uses) is the
\* finalized block, the block is confirmed exactly if it is LMD-confirmed;
\* otherwise exactly if that checkpoint is the tracked
\* ffg_confirmed_checkpoint and the justified block, the block is
\* LMD-confirmed and the checkpoint of two epochs back is the finalized
\* block.
C14_PreviousEpochRule ==
    \A ci \in IF calls < MaxCalls THEN RuleConfInfos ELSE {} :
        slots_in_order(Self, ci) =>
            \A self1 \in {enter_slot(Self, ci)} :
                \A b \in Chain(find_head_root(ci)) :
                    (/\ b # ci.finalized_checkpoint.root
                     /\ b # self1.confirmed_head_root
                     /\ EpochOffset(self1, b) = 1) =>
                        LET current_epoch == compute_epoch_at_slot(self1.current_slot)
                            one_back == CheckpointOnChain(b, current_epoch - 1)
                            two_back == CheckpointOnChain(b, current_epoch - 2)
                            confirmed == is_confirmed(self1, ci, b).value
                        IN  IF one_back = ci.finalized_checkpoint.root
                            THEN confirmed <=> is_lmd_confirmed(self1, ci, b)
                            ELSE confirmed <=>
                                    /\ one_back = self1.ffg_confirmed_checkpoint
                                    /\ one_back = ci.justified_checkpoint.root
                                    /\ is_lmd_confirmed(self1, ci, b)
                                    /\ two_back = ci.finalized_checkpoint.root

\* The engine tracks A as FFG-confirmed at the end of epoch 2.  A snapshot
\* of slot 96 that finalizes G and justifies A has Cf, of epoch 2,
\* confirmed through the tracked checkpoint; one that finalizes A has it
\* confirmed on LMD alone; one that justifies G leaves it unconfirmed.
C14_Witness ==
    /\ current_slot = 95
    /\ ffg_confirmed_checkpoint = "A"
    /\ confirmed_head_root = "A"
    /\ \E ci \in RuleConfInfos :
          /\ ci.current_slot = 96
          /\ ci.finalized_checkpoint.root = "G"
          /\ ci.justified_checkpoint.root = "A"
          /\ update_confirmed_head(Self, ci).locals.confirmed_head_root = "Cf"
    /\ \E ci \in RuleConfInfos :
          /\ ci.current_slot = 96
          /\ ci.finalized_checkpoint.root = "A"
          /\ update_confirmed_head(Self, ci).locals.confirmed_head_root = "Cf"
    /\ \E ci \in RuleConfInfos :
          /\ ci.current_slot = 96
          /\ ci.justified_checkpoint.root = "G"
          /\ is_lmd_confirmed(enter_slot(Self, ci), ci, "Cf")
          /\ ~is_confirmed(enter_slot(Self, ci), ci, "Cf").value

\* C15: in every engine state a call is made from and for every snapshot,
\* a call that leaves ffg_confirmed_checkpoint different from what it was
\* is of the last slot of an epoch, returns, and has a block of the current
\* epoch on the chain of the head for which is_ffg_confirmed is true and
\* whose checkpoint block of the current epoch is the new value; every
\* other call leaves ffg_confirmed_checkpoint as it was.
C15_CheckpointTrackedAtEpochEnd ==
    \A ci \in IF calls < MaxCalls THEN RuleConfInfos ELSE {} :
        \A r \in {update_confirmed_head(Self, ci)} :
            r.self.ffg_confirmed_checkpoint # ffg_confirmed_checkpoint =>
                /\ (ci.current_slot + 1) % SLOTS_PER_EPOCH = 0
                /\ r.outcome = "returned"
                /\ r.self.current_slot = ci.current_slot
                /\ \E b \in Chain(find_head_root(ci)) :
                      /\ EpochOffset(r.self, b) = 0
                      /\ is_ffg_confirmed(enter_slot(Self, ci), ci, b).value
                      /\ r.self.ffg_confirmed_checkpoint
                            = CheckpointOnChain(b, compute_epoch_at_slot(ci.current_slot))
                      /\ r.locals.confirmed_head_root = b

\* The call of slot 95, the last of epoch 2, set the tracked checkpoint to
\* A, the checkpoint block of epoch 2, after a call that left it unset.
C15_Witness ==
    /\ calls >= 2
    /\ outcome = "returned"
    /\ current_slot = 95
    /\ before.current_slot = 94
    /\ before.ffg_confirmed_checkpoint = None
    /\ before.confirmed_head_root # None
    /\ ffg_confirmed_checkpoint = "A"
    /\ locals.confirmed_head_root \in {"B", "C", "Cf"}

\* C16: a recording call that moves the confirmed head to a block whose
\* chain does not hold the old confirmed head returns, logs the reorg
\* error, appends the confirmation times of the blocks of that chain above
\* the old confirmed slot, from the new head downwards, records once every
\* slot between the old confirmed slot and the new one that has none of
\* these blocks, the slots below the lowest of them included, and stores the
\* new block as the confirmed head.
C16_ReorgRecorded ==
    [][ (/\ IsCall
         /\ locals'.record_conf_time
         /\ confirmed_head_root # None
         /\ locals'.confirmed_head_root # None
         /\ locals'.confirmed_head_slot > confirmed_head_slot
         /\ confirmed_head_root \notin Chain(locals'.confirmed_head_root))
        => LET visited == VisitedAbove(locals'.confirmed_head_root, confirmed_head_slot)
               new_times == Appended(conf_times', conf_times)
               new_empty == Appended(empty_or_forked_slots', empty_or_forked_slots)
               unfilled == {s \in (confirmed_head_slot + 1)..(locals'.confirmed_head_slot - 1) :
                              \A i \in DOMAIN visited : BlockSlot[visited[i]] # s}
           IN  /\ outcome' = "returned"
               /\ ReorgError \in log'
               /\ new_times =
                     [i \in DOMAIN visited |->
                        (current_slot' - BlockSlot[visited[i]]) * SLOT_LEN
                            + time_in_current_slot']
               /\ SeqToSet(new_empty) = unfilled
               /\ Len(new_empty) = Cardinality(unfilled)
               /\ confirmed_head_root' = locals'.confirmed_head_root
               /\ confirmed_head_slot' = locals'.confirmed_head_slot ]_vars

\* With Cf (slot 95) confirmed, the call of slot 97 confirmed D, whose
\* chain passes C at slot 95: the error is logged, the time of D is
\* appended and slot 96 is recorded.
C16_Witness ==
    /\ outcome = "returned"
    /\ ReorgError \in log
    /\ locals.record_conf_time
    /\ before.confirmed_head_root = "Cf"
    /\ confirmed_head_root = "D"
    /\ Len(conf_times) = before.conf_times + 1
    /\ Len(empty_or_forked_slots) = before.empty_or_forked_slots + 1
    /\ empty_or_forked_slots[Len(empty_or_forked_slots)] = 96

\* C17: a call that returns appends one value to times_from_confirmed_head,
\* the seconds from the start of the slot of the confirmed head, as it is
\* after the call, to the time of the snapshot; a call that fails appends
\* none; so the list is as long as the number of calls that returned.
C17_TimeFromConfirmedHead ==
    /\ [][ IsCall =>
              IF outcome' = "returned"
              THEN times_from_confirmed_head' =
                      Append(times_from_confirmed_head,
                             (current_slot' - confirmed_head_slot') * SLOT_LEN
                                + time_in_current_slot')
              ELSE times_from_confirmed_head' = times_from_confirmed_head ]_vars
    /\ [](Len(times_from_confirmed_head) = Len(accepted))

\* Three calls returned: the first moved the confirmed head, then came one
\* that neither moved it nor found a lower candidate, and the last found a
\* lower candidate; seven seconds into its slot it appended the time from
\* the confirmed head that was kept.
C17_Witness ==
    /\ Len(times_from_confirmed_head) = 3
    /\ Len(accepted) = 3
    /\ Warning \in log
    /\ locals.confirmed_head_slot < confirmed_head_slot
    /\ time_in_current_slot = 7
    /\ times_from_confirmed_head[3]
          = (current_slot - confirmed_head_slot) * SLOT_LEN + 7
    /\ times_from_confirmed_head[2] - times_from_confirmed_head[1]
          \in {(accepted[2] - accepted[1]) * SLOT_LEN + d : d \in {-7, 0, 7}}

\* C19: a query of the producer whose committee answer is missing or
\* malformed ends with ForkChoiceDataNotUpdatedError and writes no file; a
\* query that writes a file had all three answers well-formed, and the file
\* it writes, named after the slot and the time in the slot, holds every
\* key of a snapshot, with the committee size counted over the whole
\* answer.
C19_NoPartialSnapshot ==
    [][ producer'.runs = producer.runs + 1 =>
          LET query == producer'.query
              written == producer'.files[Len(producer'.files)]
          IN  /\ CommitteeDataMissingOrMalformed(query) =>
                    /\ producer'.outcome = "ForkChoiceDataNotUpdatedError"
                    /\ producer'.files = producer.files
              /\ producer'.files # producer.files =>
                    /\ query.headers = "ok"
                    /\ query.fork_choice = "ok"
                    /\ query.committees.kind = "list"
                    /\ ~CommitteeDataMissingOrMalformed(query)
                    /\ Len(producer'.files) = Len(producer.files) + 1
                    /\ SubSeq(producer'.files, 1, Len(producer.files)) = producer.files
                    /\ written.name = <<query.current_slot, query.time_in_current_slot>>
                    /\ DOMAIN written.data = SnapshotKeys
                    /\ written.data.current_slot = query.current_slot
                    /\ written.data.current_time_in_slot = query.time_in_current_slot
                    /\ written.data.committee_size
                          = TotalValidators(query.committees.data) ]_vars

\* After a snapshot was written, a query got a committee answer whose
\* second entry has no validators: the error is signalled and the one file
\* is all there is.
C19_Witness ==
    /\ producer.runs = 2
    /\ producer.outcome = "ForkChoiceDataNotUpdatedError"
    /\ Len(producer.files) = 1
    /\ producer.files[1].data.committee_size = 4
    /\ producer.query.committees.kind = "list"
    /\ Len(producer.query.committees.data) = 2
    /\ producer.query.committees.data[1].has_validators
    /\ ~producer.query.committees.data[2].has_validators

\* C20: a batch run applies the files in non-decreasing (slot,
\* time_in_slot) order of their names, each file once; a file whose
\* snapshot's slot is below the engine's current_slot ends the run with the
\* assertion error, the engine keeping the state the last applied snapshot
\* left, and nothing is applied after that; any other file is applied and
\* the run moves to the next name.
C20_BatchAbortsOnOrderingFailure ==
    /\ [](batch.status # "none" =>
            /\ Len(batch.sorted_files) = Cardinality(DOMAIN batch.directory)
            /\ {batch.sorted_files[i] : i \in DOMAIN batch.sorted_files}
                  = DOMAIN batch.directory
            /\ \A i, j \in DOMAIN batch.sorted_files :
                  i < j => /\ file_name_before(batch.sorted_files[i], batch.sorted_files[j])
                           /\ batch.sorted_files[i] # batch.sorted_files[j])
    /\ [][ /\ batch.status = "running" =>
                LET file_name == batch.sorted_files[batch.position]
                IN  /\ batch.position \in DOMAIN batch.sorted_files
                    /\ locals'.current_slot = batch.directory[file_name]
                    /\ batch.directory[file_name] < current_slot =>
                          /\ outcome' = "AssertionError"
                          /\ batch'.status = "aborted"
                          /\ batch'.position = batch.position
                          /\ UNCHANGED engine
                    /\ batch.directory[file_name] >= current_slot =>
                          /\ outcome' = "returned"
                          /\ current_slot' = batch.directory[file_name]
                          /\ time_in_current_slot' = file_name[2]
                          /\ batch'.position = batch.position + 1
                          /\ batch'.status \in {"running", "done"}
                          /\ batch'.status = "done" <=>
                                batch.position = Len(batch.sorted_files)
           /\ batch.status \in {"aborted", "done"} =>
                 (UNCHANGED engine /\ batch' = batch) ]_vars

\* A run over three files applied the first and failed on the second,
\* whose snapshot is of an earlier slot; the third, which the engine would
\* have accepted, was left unread.
C20_Witness ==
    /\ batch.status = "aborted"
    /\ Len(batch.sorted_files) = 3
    /\ batch.position = 2
    /\ outcome = "AssertionError"
    /\ accepted = <<batch.directory[batch.sorted_files[1]]>>
    /\ batch.directory[batch.sorted_files[2]] < current_slot
    /\ batch.directory[batch.sorted_files[3]] >= current_slot

\* The blocks at which the LMD recursion stops in a snapshot.
LmdBase(self, ci) == {ci.finalized_checkpoint.root, self.confirmed_head_root}

\* The blocks from b down its parent links to, and without, the nearest
\* block of `base`; defined where the chain of b has a block of `base`.
RECURSIVE PathAbove(_, _)
PathAbove(b, base) ==
    IF b \in base \/ b \notin Blocks THEN {} ELSE {b} \cup PathAbove(BlockParent[b], base)

\* C21: in every engine state a call is made from, for every snapshot the
\* engine accepts and every block of the snapshot that is neither the
\* finalized checkpoint block nor the confirmed head and has one of the two
\* on its chain, is_lmd_confirmed ends and is true exactly if every block
\* from it down to, and without, the nearest of the two is
\* one-lmd-confirmed.
C21_LmdConfirmedAlongPath ==
    \A ci \in IF calls < MaxCalls THEN RuleConfInfos ELSE {} :
        slots_in_order(Self, ci) =>
            \A self1 \in {enter_slot(Self, ci)} :
                \A b \in DOMAIN ci.nodes :
                    (b \notin LmdBase(self1, ci) /\ Chain(b) \cap LmdBase(self1, ci) # {}) =>
                        (is_lmd_confirmed(self1, ci, b) <=>
                            \A x \in PathAbove(b, LmdBase(self1, ci)) :
                                is_one_lmd_confirmed(self1, ci, x))

\* The confirmed head is A, and a snapshot of slot 97 shows D
\* one-lmd-confirmed over B, which is not: D is three blocks above A and not
\* LMD-confirmed; another snapshot has D, C and B all one-lmd-confirmed and
\* D LMD-confirmed.
C21_Witness ==
    /\ confirmed_head_root = "A"
    /\ \E ci \in RuleConfInfos :
          /\ ci.current_slot = 97
          /\ slots_in_order(Self, ci)
          /\ ci.finalized_checkpoint.root = "G"
          /\ PathAbove("D", LmdBase(enter_slot(Self, ci), ci)) = {"D", "C", "B"}
          /\ is_one_lmd_confirmed(enter_slot(Self, ci), ci, "D")
          /\ ~is_one_lmd_confirmed(enter_slot(Self, ci), ci, "B")
          /\ ~is_lmd_confirmed(enter_slot(Self, ci), ci, "D")
    /\ \E ci \in RuleConfInfos :
          /\ ci.current_slot = 97
          /\ slots_in_order(Self, ci)
          /\ PathAbove("D", LmdBase(enter_slot(Self, ci), ci)) = {"D", "C", "B"}
          /\ is_lmd_confirmed(enter_slot(Self, ci), ci, "D")

\* The numbers of a safety test evaluated on its own, in the weight unit
\* of the model and exact: the total active balance, 40% of the weight of
\* one committee, the weight that was read, and the weight of the
\* committees of the slots after the parent's up to the current slot.
EvalTotal == SLOTS_PER_EPOCH * evaluation.committee_size * VALIDATOR_BALANCE

EvalProposerScore ==
    (PROPOSER_SCORE_BOOST * ceil_div(EvalTotal, SLOTS_PER_EPOCH)) \div 100

EvalWeight == evaluation.validators * VALIDATOR_BALANCE

EvalMaximumSupport ==
    get_committee_weight_between_slots(
        [committee_size |-> evaluation.committee_size],
        evaluation.parent_slot + 1, evaluation.current_slot)

\* Both sides of the one-LMD comparison, multiplied by ThresholdDen.
EvalLmdLeft == ThresholdDen * 100 * (EvalWeight - EvalProposerScore)

EvalLmdRight ==
    ThresholdDen * 50 * EvalMaximumSupport + ThresholdDen * 50 * EvalProposerScore
        + evaluation.byzantine * 100 * EvalMaximumSupport

EvalRemaining ==
    (SLOTS_PER_EPOCH - (evaluation.current_slot % SLOTS_PER_EPOCH) - 1)
        * evaluation.committee_size * VALIDATOR_BALANCE

\* min(byzantine*(total - remaining), slashing*total, checkpoint_support),
\* multiplied by ThresholdDen.
EvalMaxAdversarial ==
    Min2(evaluation.byzantine * (EvalTotal - EvalRemaining),
         Min2(evaluation.slashing * EvalTotal,
              ThresholdDen * (EvalWeight - EvalProposerScore)))

\* Both sides of the FFG comparison, multiplied by 3 * ThresholdDen.
EvalFfgLeft == 2 * ThresholdDen * EvalTotal

EvalFfgRight ==
    3 * ThresholdDen * (EvalWeight - EvalProposerScore) - 3 * EvalMaxAdversarial
        + 3 * (ThresholdDen - evaluation.byzantine) * EvalRemaining

\* C23: for a block of the current epoch, is_ffg_confirmed is true exactly
\* if (2/3)*total <= checkpoint_support - max_adv + (1 - byzantine)*remaining,
\* checkpoint_support the weight of the block's checkpoint of the current
\* epoch less the proposer boost, max_adv the least of
\* byzantine*(total - remaining), slashing*total and checkpoint_support;
\* equal sides give true, and max_adv is at most checkpoint_support.
C23_FfgThreshold ==
    evaluation.function = "is_ffg_confirmed" =>
        /\ evaluation.value <=> EvalFfgLeft <= EvalFfgRight
        /\ EvalMaxAdversarial <= ThresholdDen * (EvalWeight - EvalProposerScore)

\* The least integer not below numerator / denominator.
CeilingOf(numerator, denominator) ==
    (numerator + denominator - 1) \div denominator

\* Some epoch has all its slots in the range asked for.
RangeCoversAnEpoch ==
    \E epoch \in 0..compute_epoch_at_slot(MaxWeightSlot) :
        /\ weight_query.start_slot <= epoch * SLOTS_PER_EPOCH
        /\ epoch * SLOTS_PER_EPOCH + SLOTS_PER_EPOCH - 1 <= weight_query.end_slot

\* The weight of the slots of the range in its first epoch, counted only as
\* far as the last epoch is not yet over, plus the weight of its slots in
\* the last epoch, each a share of the total active balance.
ProRatedSum ==
    LET slots_in_end_epoch == (weight_query.end_slot % SLOTS_PER_EPOCH) + 1
        slots_in_start_epoch ==
            SLOTS_PER_EPOCH - (weight_query.start_slot % SLOTS_PER_EPOCH)
        start_epoch_share ==
            CeilingOf(slots_in_start_epoch * (SLOTS_PER_EPOCH - slots_in_end_epoch)
                         * weight_query.total_active_balance,
                      SLOTS_PER_EPOCH)
    IN  CeilingOf(start_epoch_share
                     + slots_in_end_epoch * weight_query.total_active_balance,
                  SLOTS_PER_EPOCH)

\* C24: the committee weight of a range with start <= end is the total
\* active balance if the range covers an epoch; else, if the range lies in
\* one epoch, the ceiling of (end - start + 1) * total / SLOTS_PER_EPOCH,
\* not adjusted; else the pro-rated sum over the two epochs multiplied by
\* 1005/1000, rounded up.
C24_ThreeCases ==
    (weight_query.asked /\ weight_query.start_slot <= weight_query.end_slot) =>
        weight_query.weight =
            IF RangeCoversAnEpoch
            THEN weight_query.total_active_balance
            ELSE IF weight_query.start_slot \div SLOTS_PER_EPOCH
                        = weight_query.end_slot \div SLOTS_PER_EPOCH
            THEN CeilingOf((weight_query.end_slot - weight_query.start_slot + 1)
                               * weight_query.total_active_balance,
                           SLOTS_PER_EPOCH)
            ELSE CeilingOf(ProRatedSum * 1005, 1000)

\* The weight of slots 60 to 66 was computed for committees of 1: four
\* slots of epoch 1 and three of epoch 2, estimated and adjusted.
C24_Witness ==
    /\ weight_query.asked
    /\ weight_query.committee_size = 1
    /\ weight_query.start_slot = 60
    /\ weight_query.end_slot = 66
    /\ ~RangeCoversAnEpoch
    /\ weight_query.weight = CeilingOf(ProRatedSum * 1005, 1000)
    /\ weight_query.weight > ProRatedSum

\* The slots of the current epoch after the current slot.
LaterSlotsOfEpoch ==
    { slot \in 0..(MaxWeightSlot + SLOTS_PER_EPOCH) :
        /\ slot \div SLOTS_PER_EPOCH = evaluation.current_slot \div SLOTS_PER_EPOCH
        /\ slot > evaluation.current_slot }

\* C25: the remaining weight in the epoch is
\* (SLOTS_PER_EPOCH - (current_slot mod SLOTS_PER_EPOCH) - 1) * committee_size
\* * VALIDATOR_BALANCE: one committee for every slot of the epoch after the
\* current slot, so 0 at the last slot of an epoch, and less than the total
\* active balance if committee_size > 0.
C25_RemainingWeight ==
    evaluation.function = "get_remaining_weight_in_epoch" =>
        /\ evaluation.weight =
                (SLOTS_PER_EPOCH - (evaluation.current_slot % SLOTS_PER_EPOCH) - 1)
                    * evaluation.committee_size * VALIDATOR_BALANCE
        /\ evaluation.weight =
                Cardinality(LaterSlotsOfEpoch) * evaluation.committee_size
                    * VALIDATOR_BALANCE
        /\ (evaluation.current_slot + 1) % SLOTS_PER_EPOCH = 0 => evaluation.weight = 0
        /\ evaluation.committee_size > 0 =>
                evaluation.weight
                    < SLOTS_PER_EPOCH * evaluation.committee_size * VALIDATOR_BALANCE

\* The remaining weight was computed at slot 64, the first slot of epoch 2,
\* for committees of 3: 31 committees are still to vote.
C25_Witness ==
    /\ evaluation.function = "get_remaining_weight_in_epoch"
    /\ evaluation.committee_size = 3
    /\ evaluation.current_slot = 64
    /\ evaluation.weight = 31 * 3 * VALIDATOR_BALANCE

\* The confirmation time of a block of slot s in the call just made.
ConfirmationTimeOf(s) == (current_slot' - s) * SLOT_LEN + time_in_current_slot'

\* C26: a recording call that moves the confirmed head up from slot a
\* appends to conf_times one sample for every block of the chain of the new
\* confirmed head with a slot s > a, of value
\* (current_slot - s) * SLOT_LEN + time_in_current_slot, the samples of
\* higher slots first, and none for the old confirmed head.
C26_OneSamplePerNewBlock ==
    [][ (/\ IsCall
         /\ outcome' = "returned"
         /\ locals'.record_conf_time
         /\ confirmed_head_slot' > confirmed_head_slot)
        => LET fresh == {b \in Chain(confirmed_head_root') :
                            BlockSlot[b] > confirmed_head_slot}
               new_times == Appended(conf_times', conf_times)
           IN  /\ Len(new_times) = Cardinality(fresh)
               /\ \A b \in fresh :
                     \E i \in DOMAIN new_times :
                        new_times[i] = ConfirmationTimeOf(BlockSlot[b])
               /\ \A i, j \in DOMAIN new_times : i < j => new_times[i] < new_times[j]
               /\ new_times[1] = ConfirmationTimeOf(confirmed_head_slot')
               /\ \A i \in DOMAIN new_times :
                     new_times[i] # ConfirmationTimeOf(confirmed_head_slot)
               /\ SubSeq(conf_times', 1, Len(conf_times)) = conf_times ]_vars

\* A recording call at slot 97, 7 seconds into it, moved the confirmed head
\* from A (slot 64) to D (slot 97): the times of D, C (slot 95) and B (slot
\* 94) are appended in this order.
C26_Witness ==
    /\ outcome = "returned"
    /\ locals.record_conf_time
    /\ before.confirmed_head_root = "A"
    /\ confirmed_head_root = "D"
    /\ time_in_current_slot = 7
    /\ Len(conf_times) = before.conf_times + 3
    /\ SubSeq(conf_times, before.conf_times + 1, Len(conf_times))
          = <<7, 2 * SLOT_LEN + 7, 3 * SLOT_LEN + 7>>

\* C27 as stated: after every call that returns on a snapshot of the last
\* slot of an epoch and leaves as confirmed head a block of that epoch,
\* ffg_confirmed_checkpoint is the checkpoint of that epoch on the chain of
\* the confirmed head, also where the head was confirmed by an earlier
\* snapshot and is accepted as the already confirmed head.
C27_Original ==
    (/\ calls > 0
     /\ outcome = "returned"
     /\ (current_slot + 1) % SLOTS_PER_EPOCH = 0
     /\ confirmed_head_root # None
     /\ compute_epoch_at_slot(confirmed_head_slot) = compute_epoch_at_slot(current_slot))
    => ffg_confirmed_checkpoint
          = CheckpointOnChain(confirmed_head_root, compute_epoch_at_slot(current_slot))

\* C27 amended: in every engine state a call is made from, for every
\* snapshot of the last slot of an epoch on which the call returns with the
\* walk ending at a block of that epoch: if the block is the confirmed head
\* stored before the call or the finalized checkpoint, accepted without the
\* FFG test, ffg_confirmed_checkpoint is left as it was; otherwise it
\* becomes the checkpoint of that epoch on the chain of the block.
C27_TrackedAtEpochEnd ==
    \A ci \in IF calls < MaxCalls THEN ConfInfos ELSE {} :
        \A r \in {update_confirmed_head(Self, ci)} :
            (/\ r.outcome = "returned"
             /\ (ci.current_slot + 1) % SLOTS_PER_EPOCH = 0
             /\ compute_epoch_at_slot(r.locals.confirmed_head_slot)
                   = compute_epoch_at_slot(ci.current_slot))
            => IF r.locals.confirmed_head_root
                    \in {confirmed_head_root, ci.finalized_checkpoint.root}
               THEN r.self.ffg_confirmed_checkpoint = ffg_confirmed_checkpoint
               ELSE r.self.ffg_confirmed_checkpoint
                        = CheckpointOnChain(r.locals.confirmed_head_root,
                                            compute_epoch_at_slot(ci.current_slot))

\* With A (slot 64) the confirmed head and no checkpoint tracked, a call at
\* slot 95, the last slot of epoch 2, confirmed Cf by the rule of the
\* current epoch: the tracked checkpoint is A, the checkpoint of epoch 2.
C27_Witness ==
    /\ outcome = "returned"
    /\ current_slot = 95
    /\ before.confirmed_head_root = "A"
    /\ before.ffg_confirmed_checkpoint = None
    /\ confirmed_head_root = "Cf"
    /\ ffg_confirmed_checkpoint = "A"

\* C28: no node of the snapshot has a higher slot than the head selected,
\* whatever the weights, the order of the nodes and the snapshot's head_root
\* field; among several nodes of the highest slot one is selected.
C28_HeadHasMaximumSlot ==
    selection.asked =>
        /\ selection.head_root \in DOMAIN selection.conf_info.nodes
        /\ \A b \in DOMAIN selection.conf_info.nodes :
              selection.conf_info.nodes[b].slot
                 <= selection.conf_info.nodes[selection.head_root].slot

\* C29: in every engine state a call is made from, for every snapshot that
\* passes the ordering assertion, the assertion of is_ffg_confirmed (the
\* block is of the current epoch) fails for no block the walk for the
\* confirmed head examines, nor for any other block of the head's chain,
\* and the call returns.
C29_FfgAssertionNeverFails ==
    \A ci \in IF calls < MaxCalls THEN RuleConfInfos ELSE {} :
        slots_in_order(Self, ci) =>
            \A self1 \in {enter_slot(Self, ci)} :
                /\ ~find_confirmed_block_head(self1, ci, find_head_root(ci)).raised
                /\ \A b \in Chain(find_head_root(ci)) : ~is_confirmed(self1, ci, b).raised
                /\ update_confirmed_head(Self, ci).outcome = "returned"

\* With C (slot 95, epoch 2) the confirmed head, a call at slot 97 confirmed
\* D, a block of epoch 3, the current one: the FFG test was made for D and
\* the call returned.
C29_Witness ==
    /\ outcome = "returned"
    /\ current_slot = 97
    /\ before.confirmed_head_root = "C"
    /\ locals.head_root = "D"
    /\ confirmed_head_root = "D"

\* C30: empty_or_forked_slots holds no slot twice, and every slot s in it
\* satisfies 0 < s < confirmed_head_slot, after every sequence of calls,
\* those in which the candidate is below the confirmed head or on another
\* chain included.
C30_RecordedSlotsBelowHead ==
    /\ \A i, j \in DOMAIN empty_or_forked_slots :
          empty_or_forked_slots[i] = empty_or_forked_slots[j] => i = j
    /\ \A i \in DOMAIN empty_or_forked_slots :
          /\ 0 < empty_or_forked_slots[i]
          /\ empty_or_forked_slots[i] < confirmed_head_slot

\* With Cf (slot 95) confirmed in a recording call that recorded the slots
\* above A, a call confirmed D (slot 97) on the other chain and recorded
\* slot 96: 31 slots are recorded.
C30_Witness ==
    /\ outcome = "returned"
    /\ ReorgError \in log
    /\ before.confirmed_head_root = "Cf"
    /\ confirmed_head_slot = 97
    /\ Len(empty_or_forked_slots) = 31
    /\ before.empty_or_forked_slots = 30

\* C31: the snapshots hold no block of a slot after their current_slot and
\* no negative time; then in every state the confirmed head is not after
\* the current slot, and no confirmation time and no time from the
\* confirmed head is negative.
C31_TimesNotNegative ==
    /\ confirmed_head_slot <= current_slot
    /\ \A i \in DOMAIN conf_times : conf_times[i] >= 0
    /\ \A i \in DOMAIN times_from_confirmed_head : times_from_confirmed_head[i] >= 0

\* A recording call at the start of slot 97 confirmed D, the block of slot
\* 97: its confirmation time and the time from the confirmed head are 0.
C31_Witness ==
    /\ outcome = "returned"
    /\ locals.record_conf_time
    /\ current_slot = 97
    /\ time_in_current_slot = 0
    /\ confirmed_head_slot = current_slot
    /\ before.confirmed_head_slot < 97
    /\ conf_times[before.conf_times + 1] = 0
    /\ times_from_confirmed_head[Len(times_from_confirmed_head)] = 0

\* C32: in every state confirmed_head_root is None exactly if
\* confirmed_head_slot is 0; a call never sets a stored root back to None;
\* and a call that stores a confirmed head stores the block its walk ended
\* at, which is the head selected in its snapshot or an ancestor of it,
\* with the slot the snapshot gives for that block.
C32_ConfirmedHeadConsistent ==
    /\ [](confirmed_head_root = None <=> confirmed_head_slot = 0)
    /\ []((confirmed_head_root # None) => confirmed_head_slot = BlockSlot[confirmed_head_root])
    /\ [][ IsCall =>
             /\ confirmed_head_root # None => confirmed_head_root' # None
             /\ <<confirmed_head_root, confirmed_head_slot>>'
                    # <<confirmed_head_root, confirmed_head_slot>>
                  => /\ outcome' = "returned"
                     /\ confirmed_head_root' = locals'.confirmed_head_root
                     /\ confirmed_head_slot' = locals'.confirmed_head_slot
                     /\ confirmed_head_root' \in Chain(locals'.head_root) ]_vars

\* With B (slot 94) the confirmed head, a call whose snapshot has the head D
\* stored C (slot 95), the parent of D, as the confirmed head.
C32_Witness ==
    /\ outcome = "returned"
    /\ before.confirmed_head_root = "B"
    /\ locals.head_root = "D"
    /\ confirmed_head_root = "C"
    /\ confirmed_head_slot = 95

\* The number of slots accounted for, by a confirmation time or as empty
\* or forked.
SlotsAccountedFor == Len(conf_times) + Len(empty_or_forked_slots)

\* C33: in every state len(conf_times) + len(empty_or_forked_slots) is at
\* most confirmed_head_slot; a recording call that moves the confirmed head
\* from slot a to slot b adds exactly b - a to the sum, one entry for every
\* slot of a+1..b, and every other call adds nothing, so the two are equal
\* as long as every call that moved the confirmed head was recording.
C33_SlotsAccountedOnce ==
    /\ [](SlotsAccountedFor <= confirmed_head_slot)
    /\ [][ IsCall =>
             SlotsAccountedFor' - SlotsAccountedFor
                = IF /\ outcome' = "returned"
                     /\ locals'.record_conf_time
                     /\ confirmed_head_slot' > confirmed_head_slot
                  THEN confirmed_head_slot' - confirmed_head_slot
                  ELSE 0 ]_vars

\* A recording call moved the confirmed head from G (slot 32) to B (slot
\* 94): the times of B and A and the 60 slots without a block are added,
\* 62 entries for the 62 slots 33..94.
C33_Witness ==
    /\ outcome = "returned"
    /\ locals.record_conf_time
    /\ before.confirmed_head_root = "G"
    /\ confirmed_head_root = "B"
    /\ Len(conf_times) = before.conf_times + 2
    /\ Len(empty_or_forked_slots) = before.empty_or_forked_slots + 60
    /\ SlotsAccountedFor < confirmed_head_slot

====
